---- MODULE Spec2Model ----
(***************************************************************************)
(* termrec: terminal recording, scripted input simulation and frame        *)
(* materialization.                                                        *)
(*                                                                         *)
(* Two concurrent machines share this module:                                   *)
(*   SpecT  the transform driver (cmd/transform.rs) and the controlled     *)
(*          replayer (cmd/controlled_play.rs) stepping each other through  *)
(*          two named FIFOs (event.rs);                                    *)
(*   SpecR  the recorder, the child on the PTY and the input simulator     *)
(*          thread (cmd/record.rs).                                        *)
(* The offline tools are specifications of their own:                      *)
(*   SpecC  save_recording_termrec and load_recording on a journal file    *)
(*          (file_format.rs).                                              *)
(*   SpecM  the measure command (cmd/measure_cmd.rs);                      *)
(*   SpecF  its filter_only_after_and_before_events on its own.            *)
(*   SpecP  the real-time replayer (cmd/play.rs);                          *)
(*   SpecL  load_recording and load_input on hand-written files;           *)
(*   SpecU  delete_subslices (utils.rs), SpecD delete_mosh_predict and     *)
(*   SpecA  parse_event_cmdline, each called once.                         *)
(* Each specification leaves the other machines' variables untouched.      *)
(***************************************************************************)
EXTENDS Integers, Sequences, FiniteSets, TLC

\* ------------------------------------------------------------------ bounds
\* Output events in the journal handed to transform.
MaxOutputs == 3
\* Distinct timestamps an Output event of that journal can carry: the
\* multiples of half a microsecond up to MaxTs halves.
MaxTs == 3
\* write() calls the child makes on the terminal before it exits.
MaxChildWrites == 3
\* Ticks of the recording clock (time_start.elapsed()) within one recording.
MaxTime == 2

\* A Duration of the journal file and of transform is its number of
\* nanoseconds; NanosPerMicro are the nanoseconds in a microsecond.
NanosPerMicro == 1000

\* Duration::as_micros, Duration::from_micros
AsMicros(duration) == duration \div NanosPerMicro
FromMicros(num) == num * NanosPerMicro

VARIABLES
    \* ---- transform / controlled-play
    outTs,      \* timestamps of the journal's Output events (filter_output_events)
    wPath,      \* <output_dir>/.termrec-write-event exists in the file system
    fPath,      \* <output_dir>/.termrec-finished-event exists in the file system
    wOpen,      \* processes holding a descriptor of the write_event FIFO
    fOpen,      \* processes holding a descriptor of the finished_event FIFO
    wPipe,      \* bytes buffered in the write_event FIFO
    fPipe,      \* bytes buffered in the finished_event FIFO
    dpc,        \* driver: position in TransformCmd::run
    di,         \* driver: index of the output event of the current iteration
    frames,     \* frame files: microseconds of the name -> number of outputs
                \* replayed at the capture it holds, 0 for no file
    captures,   \* per capture, the number of outputs the pane had received
    ppc,        \* replayer: position in ControlledPlayCmd::run
    pi,         \* replayer: index of the output event of the current iteration
    replayed,   \* output events the replayer has written to its stdout
    \* ---- record
    script,     \* input_events: the simulation script (empty: no simulator)
    now,        \* time elapsed since time_start
    child,      \* the child process: "running", "zombie" (exited), "reaped"
    childOut,   \* every byte the child has written to the terminal
    ptyBuf,     \* bytes written by the child and not yet read from the master
    sigBlocked, \* SIGCHLD is blocked on the recorder thread (signalfd exists)
    sigPending, \* a SIGCHLD is pending for the process
    rpc,        \* recorder: position in record_cmd / record_term
    termReady,  \* rfds.contains(term_fd) after the last select
    events,     \* Recorder.events
    data_tx,    \* Recorder.data_tx: "some" or "none"
    chan,       \* messages sent on the mpsc channel and not yet received
    rxAlive,    \* the channel's Receiver has not been dropped
    spc,        \* input thread: "none", "run", "returned", "panicked"
    si,         \* input thread: index of the next script event
    collected_data,   \* the rolling buffer of block_until_found_needle
    recorded_events,  \* the input thread's recorded events
    ptyIn,      \* data blobs the input thread has written to the PTY master
    drained,    \* bytes of the forwarded output stream drained by barriers
    unlocks,    \* per unlocked barrier: needle and the stream span it drained
    sendCalls,  \* calls of data_tx.send the recorder has made
    merged,     \* record_cmd's local `events` after finish / join / sort
    journal,    \* the events handed to save_recording_termrec
    \* ---- journal file (file_format.rs)
    cpc,        \* "idle", "start", "saved", "loaded"
    saveIn,     \* the events handed to save_recording_termrec
    saveOk,     \* save_recording_termrec returned Ok
    file,       \* the bytes of the journal file
    loadOk,     \* load_recording returned Ok
    loaded,     \* the events load_recording returned
    loadErr,    \* the error load_recording or load_input returned, "" for none
    made_of,    \* the pieces a hand-written file was put together from
    \* ---- measure (cmd/measure_cmd.rs)
    mpc,        \* position in MeasureCmd::run
    self,       \* the MeasureCmd: the command line
    recording,  \* the journal load_recording returned
    frame_files,   \* recording_dir: timestamp -> the file frame_<timestamp>
    after_event,   \* MeasureCmd::run's local after_event
    before_event,  \* MeasureCmd::run's local before_event
    from_event,    \* MeasureCmd::run's local from_event
    filtered,   \* the journal filter_only_after_and_before_events returned
    outcome,    \* the measurement: a duration or an error
    printed,    \* the durations printed on stdout
    \* ---- play (cmd/play.rs)
    plpc,       \* position in PlayCmd::run
    play_recording,  \* the journal load_recording returned
    max_delta,  \* max_accuracy_delta_us
    play_events,     \* events: the Output events of the journal
    last_timestamp,  \* the cursor
    pe,         \* index of the event of the current iteration
    stdout,     \* the bytes written to stdout
    elapsed_log,     \* begin.elapsed() of every iteration that wrote
    sleep_log,  \* the argument of every thread::sleep
    play_clock, \* the time since the first iteration began
    written_at, \* play_clock at every write to stdout
    \* ---- one call of a function (file_format.rs, utils.rs, cmd/measure_cmd.rs)
    fn_pc,      \* "idle", "call", "returned", "panicked"
    fn_in,      \* the arguments of the call
    fn_out      \* what the call returned

tvars == <<outTs, wPath, fPath, wOpen, fOpen, wPipe, fPipe, dpc, di, frames,
           captures, ppc, pi, replayed>>

rvars == <<script, now, child, childOut, ptyBuf, sigBlocked, sigPending, rpc,
           termReady, events, data_tx, chan, rxAlive, spc, si, collected_data,
           recorded_events, ptyIn, drained, unlocks, sendCalls, merged, journal>>

cvars == <<cpc, saveIn, saveOk, file, loadOk, loaded, loadErr, made_of>>

\* The variables of the offline tools, which transform and record leave alone.
mvars == <<mpc, self, recording, frame_files, after_event, before_event,
           from_event, filtered, outcome, printed>>

pvars == <<plpc, play_recording, max_delta, play_events, last_timestamp, pe,
           stdout, elapsed_log, sleep_log, play_clock, written_at>>

uvars == <<fn_pc, fn_in, fn_out>>

ovars == <<cvars, mvars, pvars, uvars>>

vars == <<tvars, rvars, ovars>>

\* The machine that a specification does not run stays in its idle state.
IdleT ==
    /\ outTs = <<>>
    /\ wPath = FALSE
    /\ fPath = FALSE
    /\ wOpen = {}
    /\ fOpen = {}
    /\ wPipe = 0
    /\ fPipe = 0
    /\ dpc = "idle"
    /\ di = 1
    /\ frames = <<>>
    /\ captures = <<>>
    /\ ppc = "none"
    /\ pi = 1
    /\ replayed = 0

IdleC ==
    /\ cpc = "idle"
    /\ saveIn = <<>>
    /\ saveOk = FALSE
    /\ file = <<>>
    /\ loadOk = FALSE
    /\ loaded = <<>>
    /\ loadErr = ""
    /\ made_of = <<>>

IdleM ==
    /\ mpc = "idle"
    /\ self = <<>>
    /\ recording = <<>>
    /\ frame_files = <<>>
    /\ after_event = <<>>
    /\ before_event = <<>>
    /\ from_event = <<>>
    /\ filtered = <<>>
    /\ outcome = <<>>
    /\ printed = <<>>

IdleP ==
    /\ plpc = "idle"
    /\ play_recording = <<>>
    /\ max_delta = 0
    /\ play_events = <<>>
    /\ last_timestamp = 0
    /\ pe = 1
    /\ stdout = <<>>
    /\ elapsed_log = <<>>
    /\ sleep_log = <<>>
    /\ play_clock = 0
    /\ written_at = <<>>

IdleU ==
    /\ fn_pc = "idle"
    /\ fn_in = <<>>
    /\ fn_out = <<>>

IdleO == IdleC /\ IdleM /\ IdleP /\ IdleU

IdleR ==
    /\ script = <<>>
    /\ now = 0
    /\ child = "none"
    /\ childOut = <<>>
    /\ ptyBuf = <<>>
    /\ sigBlocked = FALSE
    /\ sigPending = FALSE
    /\ rpc = "idle"
    /\ termReady = FALSE
    /\ events = <<>>
    /\ data_tx = "none"
    /\ chan = <<>>
    /\ rxAlive = FALSE
    /\ spc = "none"
    /\ si = 1
    /\ collected_data = <<>>
    /\ recorded_events = <<>>
    /\ ptyIn = <<>>
    /\ drained = 0
    /\ unlocks = <<>>
    /\ sendCalls = 0
    /\ merged = <<>>
    /\ journal = <<>>

\* ------------------------------------------------------------- event pipe

\* A wait that returns on a zero-length read instead of looping past it.
WaitReturnsOnEmptyRead(pipe) == TRUE

\* EventFile::wait returns once read() delivers a byte: it blocks while the FIFO
\* is empty (every holder opened it read+write, so there is never an EOF).
WaitReady(pipe) == pipe > 0

\* EventFile::signal writes one byte.
Signalled(pipe) == pipe + 1

\* A wait that leaves the byte it has read in the pipe.
Peeked(pipe) == pipe

\* EventFile::wait consumes one byte.
Consumed(pipe) == pipe - 1

\* Dropping an EventFile closes its descriptor; the kernel frees the FIFO's
\* buffer when the last descriptor is closed.
AfterClose(open, who, pipe) == IF open \ {who} = {} THEN 0 ELSE pipe

\* A connect that leaves the path in the directory.
StillLinked(path) == path

\* EventFile::connect unlinks the path it has opened: the path exists no more.
Unlinked(path) == FALSE

\* ------------------------------------------------------- transform driver

\* All journals of at most MaxOutputs Output events.
OutputTimes == { k * (NanosPerMicro \div 2) : k \in 1..MaxTs }

Journals == UNION {[1..n -> OutputTimes] : n \in 0..MaxOutputs}

\* The frame_timestamp of transform: timestamp.as_micros() as a u64.
frame_timestamp(timestamp) == AsMicros(timestamp)

\* The output directory without frame files (record -d transforms into a
\* directory that was empty or new).
NoFrames == [t \in { frame_timestamp(ts) : ts \in OutputTimes } |-> 0]

\* A capture that leaves a frame file that exists as it is.
KeepsFirstCapture(old, new) == IF old = 0 THEN new ELSE old

\* File::create truncates the frame file, tmux capture-pane fills it: the
\* file holds the new capture.
Captured(old, new) == new

InitT ==
    /\ outTs \in Journals
    /\ wPath \in BOOLEAN
    /\ fPath \in BOOLEAN
    /\ wOpen = {}
    /\ fOpen = {}
    /\ wPipe = 0
    /\ fPipe = 0
    /\ dpc = "create_w"
    /\ di = 1
    /\ frames = NoFrames
    /\ captures = <<>>
    /\ ppc = "none"
    /\ pi = 1
    /\ replayed = 0
    /\ IdleR
    /\ IdleO

\* EventFile::create(".termrec-write-event"): mkfifo fails on an existing path.
DrvCreateWrite ==
    /\ dpc = "create_w"
    /\ UNCHANGED <<rvars, ovars>>
    /\ IF wPath
         THEN /\ dpc' = "failed"
              /\ UNCHANGED <<wPath, wOpen>>
         ELSE /\ wPath' = TRUE
              /\ wOpen' = {"driver"}
              /\ dpc' = "create_f"
    /\ UNCHANGED <<outTs, fPath, fOpen, wPipe, fPipe, di, frames, captures,
                   ppc, pi, replayed>>

\* EventFile::create(".termrec-finished-event"); on failure `?` returns and the
\* write_event EventFile is dropped (its path stays).
DrvCreateFinished ==
    /\ dpc = "create_f"
    /\ UNCHANGED <<rvars, ovars>>
    /\ IF fPath
         THEN /\ dpc' = "failed"
              /\ wOpen' = wOpen \ {"driver"}
              /\ wPipe' = AfterClose(wOpen, "driver", wPipe)
              /\ UNCHANGED <<fPath, fOpen>>
         ELSE /\ fPath' = TRUE
              /\ fOpen' = {"driver"}
              /\ dpc' = "spawn"
              /\ UNCHANGED <<wOpen, wPipe>>
    /\ UNCHANGED <<outTs, wPath, fPipe, di, frames, captures, ppc, pi, replayed>>

\* load_recording, filter_output_events, then `tmux new-session -d -- <exe>
\* controlled-play ...`: the replayer process starts running on its own.
DrvSpawn ==
    /\ dpc = "spawn"
    /\ UNCHANGED <<rvars, ovars>>
    /\ ppc' = "load"
    /\ dpc' = IF Len(outTs) = 0 THEN "final_signal" ELSE "signal"
    /\ UNCHANGED <<outTs, wPath, fPath, wOpen, fOpen, wPipe, fPipe, di, frames,
                   captures, pi, replayed>>

\* for (timestamp, _) in events: write_event.signal()
DrvSignal ==
    /\ dpc = "signal"
    /\ UNCHANGED <<rvars, ovars>>
    /\ wPipe' = Signalled(wPipe)
    /\ dpc' = "wait"
    /\ UNCHANGED <<outTs, wPath, fPath, wOpen, fOpen, fPipe, di, frames,
                   captures, ppc, pi, replayed>>

\* finished_event.wait()
DrvWait ==
    /\ dpc = "wait"
    /\ UNCHANGED <<rvars, ovars>>
    /\ WaitReady(fPipe)
    /\ fPipe' = Consumed(fPipe)
    /\ dpc' = "capture"
    /\ UNCHANGED <<outTs, wPath, fPath, wOpen, fOpen, wPipe, di, frames,
                   captures, ppc, pi, replayed>>

\* File::create(frame_<micros>) and `tmux capture-pane`: the frame holds what
\* the pane has received so far; a second event with the same timestamp
\* truncates and rewrites the same file.
DrvCapture ==
    /\ dpc = "capture"
    /\ UNCHANGED <<rvars, ovars>>
    /\ frames' = [frames EXCEPT ![frame_timestamp(outTs[di])] = Captured(@, replayed)]
    /\ captures' = Append(captures, replayed)
    /\ di' = di + 1
    /\ dpc' = IF di = Len(outTs) THEN "final_signal" ELSE "signal"
    /\ UNCHANGED <<outTs, wPath, fPath, wOpen, fOpen, wPipe, fPipe, ppc, pi,
                   replayed>>

\* write_event.signal() after the loop
DrvFinalSignal ==
    /\ dpc = "final_signal"
    /\ UNCHANGED <<rvars, ovars>>
    /\ wPipe' = Signalled(wPipe)
    /\ dpc' = "exit"
    /\ UNCHANGED <<outTs, wPath, fPath, wOpen, fOpen, fPipe, di, frames,
                   captures, ppc, pi, replayed>>

\* Ok(()): both EventFiles are dropped.
DrvExit ==
    /\ dpc = "exit"
    /\ UNCHANGED <<rvars, ovars>>
    /\ wOpen' = wOpen \ {"driver"}
    /\ fOpen' = fOpen \ {"driver"}
    /\ wPipe' = AfterClose(wOpen, "driver", wPipe)
    /\ fPipe' = AfterClose(fOpen, "driver", fPipe)
    /\ dpc' = "done"
    /\ UNCHANGED <<outTs, wPath, fPath, di, frames, captures, ppc, pi, replayed>>

Driver ==
    \/ DrvCreateWrite
    \/ DrvCreateFinished
    \/ DrvSpawn
    \/ DrvSignal
    \/ DrvWait
    \/ DrvCapture
    \/ DrvFinalSignal
    \/ DrvExit

\* ---------------------------------------------------- controlled replayer

\* load_recording + filter_output_events of the same journal file.
PlyLoad ==
    /\ ppc = "load"
    /\ UNCHANGED <<rvars, ovars>>
    /\ ppc' = "connect_w"
    /\ UNCHANGED <<outTs, wPath, fPath, wOpen, fOpen, wPipe, fPipe, dpc, di,
                   frames, captures, pi, replayed>>

\* EventFile::connect(write_event): open read+write, then unlink the path.
PlyConnectWrite ==
    /\ ppc = "connect_w"
    /\ UNCHANGED <<rvars, ovars>>
    /\ IF wPath
         THEN /\ wOpen' = wOpen \cup {"player"}
              /\ wPath' = Unlinked(wPath)
              /\ ppc' = "connect_f"
         ELSE /\ ppc' = "failed"
              /\ UNCHANGED <<wOpen, wPath>>
    /\ UNCHANGED <<outTs, fPath, fOpen, wPipe, fPipe, dpc, di, frames, captures,
                   pi, replayed>>

\* EventFile::connect(finished_event); on failure write_event is dropped.
PlyConnectFinished ==
    /\ ppc = "connect_f"
    /\ UNCHANGED <<rvars, ovars>>
    /\ IF fPath
         THEN /\ fOpen' = fOpen \cup {"player"}
              /\ fPath' = Unlinked(fPath)
              /\ ppc' = IF Len(outTs) = 0 THEN "final_wait" ELSE "wait"
              /\ UNCHANGED <<wOpen, wPipe>>
         ELSE /\ ppc' = "failed"
              /\ wOpen' = wOpen \ {"player"}
              /\ wPipe' = AfterClose(wOpen, "player", wPipe)
              /\ UNCHANGED <<fOpen, fPath>>
    /\ UNCHANGED <<outTs, wPath, fPipe, dpc, di, frames, captures, pi, replayed>>

\* for (_, data) in events: write_event.wait()
PlyWait ==
    /\ ppc = "wait"
    /\ UNCHANGED <<rvars, ovars>>
    /\ WaitReady(wPipe)
    /\ wPipe' = Consumed(wPipe)
    /\ ppc' = "write"
    /\ UNCHANGED <<outTs, wPath, fPath, wOpen, fOpen, fPipe, dpc, di, frames,
                   captures, pi, replayed>>

\* stdout.write_all(&data)
PlyWrite ==
    /\ ppc = "write"
    /\ UNCHANGED <<rvars, ovars>>
    /\ replayed' = replayed + 1
    /\ ppc' = "signal"
    /\ UNCHANGED <<outTs, wPath, fPath, wOpen, fOpen, wPipe, fPipe, dpc, di,
                   frames, captures, pi>>

\* finished_event.signal()
PlySignal ==
    /\ ppc = "signal"
    /\ UNCHANGED <<rvars, ovars>>
    /\ fPipe' = Signalled(fPipe)
    /\ pi' = pi + 1
    /\ ppc' = IF pi = Len(outTs) THEN "final_wait" ELSE "wait"
    /\ UNCHANGED <<outTs, wPath, fPath, wOpen, fOpen, wPipe, dpc, di, frames,
                   captures, replayed>>

\* write_event.wait() after the loop
PlyFinalWait ==
    /\ ppc = "final_wait"
    /\ UNCHANGED <<rvars, ovars>>
    /\ WaitReady(wPipe)
    /\ wPipe' = Consumed(wPipe)
    /\ ppc' = "exit"
    /\ UNCHANGED <<outTs, wPath, fPath, wOpen, fOpen, fPipe, dpc, di, frames,
                   captures, pi, replayed>>

\* Ok(()): both EventFiles are dropped.
PlyExit ==
    /\ ppc = "exit"
    /\ UNCHANGED <<rvars, ovars>>
    /\ wOpen' = wOpen \ {"player"}
    /\ fOpen' = fOpen \ {"player"}
    /\ wPipe' = AfterClose(wOpen, "player", wPipe)
    /\ fPipe' = AfterClose(fOpen, "player", fPipe)
    /\ ppc' = "done"
    /\ UNCHANGED <<outTs, wPath, fPath, dpc, di, frames, captures, pi, replayed>>

Player ==
    \/ PlyLoad
    \/ PlyConnectWrite
    \/ PlyConnectFinished
    \/ PlyWait
    \/ PlyWrite
    \/ PlySignal
    \/ PlyFinalWait
    \/ PlyExit

NextT == Driver \/ Player

SpecT == InitT /\ [][NextT]_vars

\* ------------------------------------------------ claims on the handshake

\* C1: the driver's k-th pane capture sees exactly k replayed output events:
\* it happens after the replayer has written and acknowledged event k, and
\* while the replayer is blocked on write_event (no token left), so before it
\* starts writing event k+1.
C1_CaptureSeesExactlyK ==
    /\ \A k \in 1..Len(captures) : captures[k] = k
    /\ dpc = "capture" =>
          /\ replayed = di
          /\ pi = di + 1
          /\ ppc \in {"wait", "final_wait"}
          /\ wPipe = 0

C1_Witness == dpc = "capture" /\ di = 2 /\ Len(captures) = 1

\* C2: whenever the driver has returned, the replayer has exited or can still
\* take a step: the handshake never leaves the replayer blocked for ever.
C2_ReplayerNeverStuck == dpc = "done" => (ppc = "done" \/ ENABLED Player)

\* C27: create fails on a path that exists and opens nothing (the path stays
\* as it was); connect opens the FIFO that exists and then unlinks the path,
\* so that nobody can attach through the path any more, while the descriptors
\* of the creator and of the connector keep working: a signal in the pipe is
\* received by the peer's wait although the path is gone.
C27_Rendezvous ==
    /\ [][ (dpc = "create_w" /\ wPath /\ dpc' # dpc)
             => (dpc' = "failed" /\ wOpen' = {} /\ fOpen' = {} /\ wPath') ]_vars
    /\ [][ (dpc = "create_f" /\ fPath /\ dpc' # dpc)
             => (dpc' = "failed" /\ wOpen' = {} /\ fOpen' = {} /\ fPath') ]_vars
    /\ [][ (ppc = "connect_w" /\ ppc' = "connect_f")
             => (wPath /\ wOpen' = wOpen \cup {"player"} /\ ~wPath') ]_vars
    /\ [][ (ppc = "connect_f" /\ ppc' \in {"wait", "final_wait"})
             => (fPath /\ fOpen' = fOpen \cup {"player"} /\ ~fPath') ]_vars
    /\ []( /\ "player" \in wOpen => ~wPath
           /\ "player" \in fOpen => ~fPath
           /\ (ppc \in {"wait", "final_wait"} /\ wPipe > 0)
                => (~wPath /\ ENABLED (PlyWait \/ PlyFinalWait))
           /\ (dpc = "wait" /\ fPipe > 0) => (~fPath /\ ENABLED DrvWait) )

\* The driver has received the replayer's signal, sent through a pipe whose
\* path was unlinked, and the replayer a signal of the driver.
C27_Witness ==
    /\ dpc = "capture"
    /\ replayed = 1
    /\ ~wPath
    /\ ~fPath
    /\ wOpen = {"driver", "player"}
    /\ fOpen = {"driver", "player"}

\* The Output events of the journal whose frame is frame_<t>.
OutputsOfFrame(t) == { k \in 1..Len(outTs) : AsMicros(outTs[k]) = t }

DriverWaited == dpc = "wait" /\ dpc' # dpc
PlayerWaited == ppc \in {"wait", "final_wait"} /\ ppc' # ppc

\* A step of one of the driver's write_event.signal(), of the replayer's
\* finished_event.signal().
DriverSignalled == dpc \in {"signal", "final_signal"} /\ dpc' # dpc
PlayerSignalled == ppc = "signal" /\ ppc' # ppc

\* The replayer has not yet taken the token of the iteration the driver
\* waits in.
TokenOwed ==
    /\ dpc = "wait"
    /\ pi = di
    /\ ppc \in {"load", "connect_w", "connect_f", "wait"}

\* C31: each event pipe holds at most one token; a wait takes exactly one
\* token and touches no other pipe; a token of write_event is put there by a
\* signal of the driver and taken only by a wait of the replayer, one of
\* finished_event the reverse, and a token leaves a pipe in no other way while
\* a descriptor of the pipe is open: the token of a signal issued before the
\* replayer has connected is there until the replayer's wait takes it.
C31_OneTokenForThePeer ==
    /\ [](wPipe \in {0, 1} /\ fPipe \in {0, 1})
    /\ [][ PlayerWaited => (wPipe = 1 /\ wPipe' = 0 /\ fPipe' = fPipe) ]_vars
    /\ [][ DriverWaited => (fPipe = 1 /\ fPipe' = 0 /\ wPipe' = wPipe) ]_vars
    /\ [][ wPipe' > wPipe => (DriverSignalled /\ ppc' = ppc /\ wPipe' = wPipe + 1) ]_vars
    /\ [][ fPipe' > fPipe => (PlayerSignalled /\ dpc' = dpc /\ fPipe' = fPipe + 1) ]_vars
    /\ [][ wPipe' < wPipe => ((PlayerWaited /\ dpc' = dpc) \/ wOpen' = {}) ]_vars
    /\ [][ fPipe' < fPipe => ((DriverWaited /\ ppc' = ppc) \/ fOpen' = {}) ]_vars
    /\ [](TokenOwed => (wPipe = 1 /\ "driver" \in wOpen))

\* The driver has signalled, the replayer has not connected yet: the token
\* waits in the pipe that only the driver holds open.
C31_Witness ==
    /\ TokenOwed
    /\ ppc = "connect_w"
    /\ wOpen = {"driver"}
    /\ wPipe = 1

\* C33: whenever transform has returned Ok, for whatever journal, the paths
\* of both event pipes are gone from the output directory: the replayer's
\* connects have unlinked them, and a transform into the same directory will
\* not find them.
C33_UnlinkedOnReturn == dpc = "done" => (~wPath /\ ~fPath)

\* ================================================================ record

\* ------------------------------------------------------- data and events

\* Option::None of find_subslice.
None == -1
\* find_subslice panics ("Empty substring to search") instead of returning an index.
Panic == -2

\* Bytes the child writes to the terminal.
OutBytes == {1, 2}

\* RecordingEvent values paired with their timestamp.
Event(ts, kind, data, dur) == [ts |-> ts, kind |-> kind, data |-> data, dur |-> dur]
Output(ts, data) == Event(ts, "Output", data, 0)
InputRealized(ts, data) == Event(ts, "InputRealized", data, 0)
BarrierUnlocked(ts, data) == Event(ts, "BarrierUnlocked", data, 0)
SleepFinished(ts, dur) == Event(ts, "SleepFinished", <<>>, dur)
MarkerEv(ts, data) == Event(ts, "Marker", data, 0)

\* SimulationEvent values.  An Input's timestamp only sets how long the thread
\* sleeps before the write; the clock may advance at any time (Tick), so every
\* sleep length is covered and the timestamp is not kept.
Input(data) == [kind |-> "Input", data |-> data, dur |-> 0]
WaitBarrier(needle) == [kind |-> "WaitBarrier", data |-> needle, dur |-> 0]
Sleep(dur) == [kind |-> "Sleep", data |-> <<>>, dur |-> dur]
Marker(data) == [kind |-> "Marker", data |-> data, dur |-> 0]

\* Msg
MsgData(data) == [type |-> "Data", data |-> data]
MsgEnd == [type |-> "End", data |-> <<>>]

\* The input scripts recorded with (input_events of record_cmd).
Scripts ==
    { <<>>,
      << WaitBarrier(<<1>>), Input(<<7>>) >>,
      << WaitBarrier(<<1, 2>>), Input(<<7>>), WaitBarrier(<<1>>), Input(<<8>>) >>,
      << WaitBarrier(<<1>>), WaitBarrier(<<1>>), Marker(<<5>>) >>,
      << WaitBarrier(<<>>), Input(<<7>>) >>,
      << Marker(<<5>>), Sleep(1), Input(<<7>>) >> }

\* find_subslice: index (from 0) of the first occurrence of needle in the
\* haystack (memmem), None when there is none or the haystack is empty.
FindSubslice(heysstack, needle) ==
    IF Len(heysstack) = 0 THEN None
    ELSE IF Len(needle) = 0 THEN Panic
    ELSE LET hits == { i \in 0..(Len(heysstack) - Len(needle)) :
                         SubSeq(heysstack, i + 1, i + Len(needle)) = needle }
         IN  IF hits = {} THEN None
             ELSE CHOOSE i \in hits : \A j \in hits : i <= j

\* A drain that stops in front of the needle instead of behind it.
DrainEndBeforeNeedle(index, needle) == index

\* collected_data.drain(..index + needle.len()): the number of bytes drained.
DrainEnd(index, needle) == index + Len(needle)

\* A sort that puts an event in front of the earlier events with its timestamp.
InsertByKeyUnstable(s, e) ==
    LET k == Cardinality({ i \in 1..Len(s) : s[i].ts < e.ts })
    IN  SubSeq(s, 1, k) \o <<e>> \o SubSeq(s, k + 1, Len(s))

\* No sort at all: the input thread's events stay behind the recorder's.
InsertByKeyNoSort(s, e) == Append(s, e)

\* One insertion of the stable sort: e, which followed all of s in the input,
\* goes behind every event of s whose timestamp is not larger.
InsertByKey(s, e) ==
    LET k == Cardinality({ i \in 1..Len(s) : s[i].ts <= e.ts })
    IN  SubSeq(s, 1, k) \o <<e>> \o SubSeq(s, k + 1, Len(s))

\* events.sort_by_key(|(timestamp, _)| *timestamp): a stable sort.
RECURSIVE SortByKey(_)
SortByKey(s) ==
    IF s = <<>> THEN <<>>
    ELSE InsertByKey(SortByKey(SubSeq(s, 1, Len(s) - 1)), s[Len(s)])

\* The payloads of a list of events, concatenated.
RECURSIVE Bytes(_)
Bytes(evs) == IF evs = <<>> THEN <<>> ELSE evs[1].data \o Bytes(Tail(evs))

IsOutput(e) == e.kind = "Output"

\* ----------------------------------------------------------------- init

\* State right after forkpty returned in the parent (time_start is taken then).
InitR ==
    /\ script \in Scripts
    /\ now = 0
    /\ child = "running"
    /\ childOut = <<>>
    /\ ptyBuf = <<>>
    /\ sigBlocked = FALSE
    /\ sigPending = FALSE
    /\ rpc = "spawn"
    /\ termReady = FALSE
    /\ events = <<>>
    /\ data_tx = "none"
    /\ chan = <<>>
    /\ rxAlive = FALSE
    /\ spc = "none"
    /\ si = 1
    /\ collected_data = <<>>
    /\ recorded_events = <<>>
    /\ ptyIn = <<>>
    /\ drained = 0
    /\ unlocks = <<>>
    /\ sendCalls = 0
    /\ merged = <<>>
    /\ journal = <<>>
    /\ IdleT
    /\ IdleO

\* --------------------------------------------------- clock, child, kernel

\* Time passes.
Tick ==
    /\ rpc \notin {"done", "error"}
    /\ now < MaxTime
    /\ now' = now + 1
    /\ UNCHANGED <<script, child, childOut, ptyBuf, sigBlocked, sigPending, rpc,
                   termReady, events, data_tx, chan, rxAlive, spc, si,
                   collected_data, recorded_events, ptyIn, drained, unlocks,
                   merged, journal, sendCalls>>
    /\ UNCHANGED <<tvars, ovars>>

\* The child (cmd.exec() of the user's command) writes a byte to the terminal.
ChildWrite ==
    /\ child = "running"
    /\ Len(childOut) < MaxChildWrites
    /\ \E b \in OutBytes :
          /\ childOut' = Append(childOut, b)
          /\ ptyBuf' = Append(ptyBuf, b)
    /\ UNCHANGED <<script, now, child, sigBlocked, sigPending, rpc, termReady,
                   events, data_tx, chan, rxAlive, spc, si, collected_data,
                   recorded_events, ptyIn, drained, unlocks, merged, journal, sendCalls>>
    /\ UNCHANGED <<tvars, ovars>>

\* The child exits.  The kernel raises SIGCHLD: it stays pending when the
\* recorder thread has it blocked; with the default disposition and nobody
\* blocking it, it is discarded.
ChildExit ==
    /\ child = "running"
    /\ child' = "zombie"
    /\ sigPending' = sigBlocked
    /\ UNCHANGED <<script, now, childOut, ptyBuf, sigBlocked, rpc, termReady,
                   events, data_tx, chan, rxAlive, spc, si, collected_data,
                   recorded_events, ptyIn, drained, unlocks, merged, journal, sendCalls>>
    /\ UNCHANGED <<tvars, ovars>>

\* The input thread was spawned before SIGCHLD was blocked, so it does not
\* block it: the kernel may hand the pending process-directed signal to that
\* thread, where the default disposition discards it.
SigchldToInputThread ==
    /\ sigPending
    /\ spc = "run"
    /\ sigPending' = FALSE
    /\ UNCHANGED <<script, now, child, childOut, ptyBuf, sigBlocked, rpc,
                   termReady, events, data_tx, chan, rxAlive, spc, si,
                   collected_data, recorded_events, ptyIn, drained, unlocks,
                   merged, journal, sendCalls>>
    /\ UNCHANGED <<tvars, ovars>>

Environment == Tick \/ ChildWrite \/ ChildExit \/ SigchldToInputThread

\* ------------------------------------------------------------- recorder

\* record_cmd: with a non-empty script, create the channel and spawn the
\* input thread; then Recorder::begin.
RecSpawn ==
    /\ rpc = "spawn"
    /\ IF script # <<>>
         THEN /\ spc' = "run"
              /\ rxAlive' = TRUE
              /\ data_tx' = "some"
         ELSE UNCHANGED <<spc, rxAlive, data_tx>>
    /\ rpc' = "setup"
    /\ UNCHANGED <<script, now, child, childOut, ptyBuf, sigBlocked, sigPending,
                   termReady, events, chan, si, collected_data, recorded_events,
                   ptyIn, drained, unlocks, merged, journal, sendCalls>>
    /\ UNCHANGED <<tvars, ovars>>

\* record_term up to the loop: make the master nonblocking, block SIGCHLD on
\* this thread and create the signal descriptor.
RecSetup ==
    /\ rpc = "setup"
    /\ sigBlocked' = TRUE
    /\ rpc' = "select"
    /\ UNCHANGED <<script, now, child, childOut, ptyBuf, sigPending, termReady,
                   events, data_tx, chan, rxAlive, spc, si, collected_data,
                   recorded_events, ptyIn, drained, unlocks, merged, journal,
                   sendCalls>>
    /\ UNCHANGED <<tvars, ovars>>

\* The master is readable when it holds bytes, and also once the child has
\* gone and the slave side is closed (read then fails with EIO).
TermReadable == ptyBuf # <<>> \/ child # "running"

\* select() over {term_fd, sigchild_fd}: blocks until one of them is readable.
RecSelect ==
    /\ rpc = "select"
    /\ TermReadable \/ sigPending
    /\ termReady' = TermReadable
    /\ rpc' = IF TermReadable THEN "drain" ELSE "sig"
    /\ UNCHANGED <<script, now, child, childOut, ptyBuf, sigBlocked, sigPending,
                   events, data_tx, chan, rxAlive, spc, si, collected_data,
                   recorded_events, ptyIn, drained, unlocks, merged, journal,
                   sendCalls>>
    /\ UNCHANGED <<tvars, ovars>>

\* A record() that keeps the sender after a failed forward.
RecordKeepsSender(data) ==
    [events |-> Append(events, Output(now, data)),
     data_tx |-> data_tx,
     chan |-> IF data_tx = "some" /\ rxAlive
                THEN Append(chan, MsgData(data)) ELSE chan,
     sendCalls |-> IF data_tx = "some" THEN sendCalls + 1 ELSE sendCalls]

\* Recorder::record: timestamp, forward to the input thread while data_tx is
\* Some (a failed send, the receiver being gone, sets data_tx to None), then
\* push the Output event.
Record(data) ==
    [events |-> Append(events, Output(now, data)),
     data_tx |-> IF data_tx = "some" /\ ~rxAlive THEN "none" ELSE data_tx,
     chan |-> IF data_tx = "some" /\ rxAlive
                THEN Append(chan, MsgData(data)) ELSE chan,
     sendCalls |-> IF data_tx = "some" THEN sendCalls + 1 ELSE sendCalls]

\* One iteration of Recorder::record_from_fd: a read() of the master returns
\* some of the buffered bytes, which are recorded; with nothing buffered it
\* fails with EAGAIN (child alive) or EIO (child gone) and the drain ends.
RecRead ==
    /\ rpc = "drain"
    /\ IF ptyBuf = <<>>
         THEN /\ rpc' = "sig"
              /\ UNCHANGED <<ptyBuf, events, data_tx, chan, sendCalls>>
         ELSE \E n \in 1..Len(ptyBuf) :
                 LET r == Record(SubSeq(ptyBuf, 1, n))
                 IN  /\ ptyBuf' = SubSeq(ptyBuf, n + 1, Len(ptyBuf))
                     /\ events' = r.events
                     /\ data_tx' = r.data_tx
                     /\ chan' = r.chan
                     /\ sendCalls' = r.sendCalls
                     /\ rpc' = rpc
    /\ UNCHANGED <<script, now, child, childOut, sigBlocked, sigPending,
                   termReady, rxAlive, spc, si, collected_data, recorded_events,
                   ptyIn, drained, unlocks, merged, journal>>
    /\ UNCHANGED <<tvars, ovars>>

\* sigchild.read_signal() (nonblocking) and, when a signal was read,
\* waitpid(child, WNOHANG): an exited child ends record_term.
RecReadSignal ==
    /\ rpc = "sig"
    /\ IF sigPending
         THEN /\ sigPending' = FALSE
              /\ IF child = "zombie"
                   THEN child' = "reaped" /\ rpc' = "finish"
                   ELSE child' = child /\ rpc' = "select"
         ELSE /\ rpc' = "select"
              /\ UNCHANGED <<sigPending, child>>
    /\ UNCHANGED <<script, now, childOut, ptyBuf, sigBlocked, termReady, events,
                   data_tx, chan, rxAlive, spc, si, collected_data,
                   recorded_events, ptyIn, drained, unlocks, merged, journal,
                   sendCalls>>
    /\ UNCHANGED <<tvars, ovars>>

\* Recorder::finish: send End while data_tx is Some, hand over the events.
RecFinish ==
    /\ rpc = "finish"
    /\ chan' = IF data_tx = "some" /\ rxAlive THEN Append(chan, MsgEnd) ELSE chan
    /\ sendCalls' = IF data_tx = "some" THEN sendCalls + 1 ELSE sendCalls
    /\ data_tx' = "none"
    /\ merged' = events
    /\ rpc' = IF spc # "none" THEN "join" ELSE "save"
    /\ UNCHANGED <<script, now, child, childOut, ptyBuf, sigBlocked, sigPending,
                   termReady, events, rxAlive, spc, si, collected_data,
                   recorded_events, ptyIn, drained, unlocks, journal>>
    /\ UNCHANGED <<tvars, ovars>>

\* A join that treats a panicked input thread like a returned one.
JoinOutcomeIgnoresPanic(s) == "save"

\* match input_thread.join(): Ok goes on to save_recording_termrec, Err bails
\* out with "FAILED to finish: input thread panicked".
JoinOutcome(s) == IF s = "panicked" THEN "error" ELSE "save"

\* input_thread.join(), events.extend(input_thread_events), sort_by_key; a
\* panicked thread has no events to hand over.
RecJoin ==
    /\ rpc = "join"
    /\ spc \in {"returned", "panicked"}
    /\ merged' = IF spc = "returned"
                   THEN SortByKey(merged \o recorded_events)
                   ELSE merged
    /\ rpc' = JoinOutcome(spc)
    /\ UNCHANGED <<script, now, child, childOut, ptyBuf, sigBlocked, sigPending,
                   termReady, events, data_tx, chan, rxAlive, spc, si,
                   collected_data, recorded_events, ptyIn, drained, unlocks,
                   journal, sendCalls>>
    /\ UNCHANGED <<tvars, ovars>>

\* save_recording_termrec(events, output)
RecSave ==
    /\ rpc = "save"
    /\ journal' = merged
    /\ rpc' = "done"
    /\ UNCHANGED <<script, now, child, childOut, ptyBuf, sigBlocked, sigPending,
                   termReady, events, data_tx, chan, rxAlive, spc, si,
                   collected_data, recorded_events, ptyIn, drained, unlocks,
                   merged, sendCalls>>
    /\ UNCHANGED <<tvars, ovars>>

Recorder ==
    \/ RecSpawn
    \/ RecSetup
    \/ RecSelect
    \/ RecRead
    \/ RecReadSignal
    \/ RecFinish
    \/ RecJoin
    \/ RecSave

\* --------------------------------------------------------- input thread

AtEvent(kind) == spc = "run" /\ si <= Len(script) /\ script[si].kind = kind

\* SimulationEvent::Input: sleep until the scheduled offset, write the data to
\* the PTY master, record InputRealized.
SimInput ==
    /\ AtEvent("Input")
    /\ ptyIn' = Append(ptyIn, script[si].data)
    /\ recorded_events' = Append(recorded_events, InputRealized(now, script[si].data))
    /\ si' = si + 1
    /\ UNCHANGED <<script, now, child, childOut, ptyBuf, sigBlocked, sigPending,
                   rpc, termReady, events, data_tx, chan, rxAlive, spc,
                   collected_data, drained, unlocks, merged, journal, sendCalls>>
    /\ UNCHANGED <<tvars, ovars>>

\* SimulationEvent::Input whose out.write_all(&data) fails (the master is
\* non-blocking and its input queue is full): unwrap() panics, the thread
\* unwinds and drops control_rx.
SimInputFails ==
    /\ AtEvent("Input")
    /\ spc' = "panicked"
    /\ rxAlive' = FALSE
    /\ chan' = <<>>
    /\ UNCHANGED <<script, now, child, childOut, ptyBuf, sigBlocked, sigPending,
                   rpc, termReady, events, data_tx, si, collected_data,
                   recorded_events, ptyIn, drained, unlocks, merged, journal,
                   sendCalls>>
    /\ UNCHANGED <<tvars, ovars>>

\* A block_until_found_needle that reports the barrier unlocked on End.
BarrierStepUnlocksOnEnd(msg, buf, needle) ==
    IF msg.type = "End"
      THEN [result |-> "found", buf |-> buf, cut |-> 0]
      ELSE LET data == buf \o msg.data
               index == FindSubslice(data, needle)
           IN  IF index = Panic
                 THEN [result |-> "panic", buf |-> data, cut |-> 0]
               ELSE IF index # None
                 THEN [result |-> "found",
                       buf |-> SubSeq(data, DrainEnd(index, needle) + 1, Len(data)),
                       cut |-> DrainEnd(index, needle)]
                 ELSE [result |-> "again", buf |-> data, cut |-> 0]

\* One iteration of block_until_found_needle on a received message: Data is
\* appended to collected_data, which is then searched; a hit drains the buffer
\* up to the end of the needle and returns true; End returns false.
BarrierStep(msg, buf, needle) ==
    IF msg.type = "End"
      THEN [result |-> "quit", buf |-> buf, cut |-> 0]
      ELSE LET data == buf \o msg.data
               index == FindSubslice(data, needle)
           IN  IF index = Panic
                 THEN [result |-> "panic", buf |-> data, cut |-> 0]
               ELSE IF index # None
                 THEN [result |-> "found",
                       buf |-> SubSeq(data, DrainEnd(index, needle) + 1, Len(data)),
                       cut |-> DrainEnd(index, needle)]
                 ELSE [result |-> "again", buf |-> data, cut |-> 0]

\* SimulationEvent::WaitBarrier: control_rx.recv() delivers the next message
\* (the thread blocks while the channel is empty).  Unlocked: record
\* BarrierUnlocked and go on; End: return the events recorded so far, which
\* drops the receiver.
SimBarrierRecv ==
    /\ AtEvent("WaitBarrier")
    /\ chan # <<>>
    /\ LET needle == script[si].data
           r == BarrierStep(Head(chan), collected_data, needle)
       IN  /\ collected_data' = r.buf
           /\ drained' = drained + r.cut
           /\ IF r.result = "found"
                THEN /\ recorded_events' =
                            Append(recorded_events, BarrierUnlocked(now, needle))
                     /\ unlocks' = Append(unlocks, [needle |-> needle,
                                                    from |-> drained,
                                                    to |-> drained + r.cut])
                     /\ si' = si + 1
                ELSE UNCHANGED <<recorded_events, unlocks, si>>
           /\ IF r.result = "quit"
                THEN spc' = "returned" /\ rxAlive' = FALSE /\ chan' = <<>>
                ELSE IF r.result = "panic"
                THEN spc' = "panicked" /\ rxAlive' = FALSE /\ chan' = <<>>
                ELSE spc' = spc /\ rxAlive' = rxAlive /\ chan' = Tail(chan)
    /\ UNCHANGED <<script, now, child, childOut, ptyBuf, sigBlocked, sigPending,
                   rpc, termReady, events, data_tx, ptyIn, merged, journal,
                   sendCalls>>
    /\ UNCHANGED <<tvars, ovars>>

\* SimulationEvent::Sleep: sleep, record SleepFinished.
SimSleep ==
    /\ AtEvent("Sleep")
    /\ recorded_events' = Append(recorded_events, SleepFinished(now, script[si].dur))
    /\ si' = si + 1
    /\ UNCHANGED <<script, now, child, childOut, ptyBuf, sigBlocked, sigPending,
                   rpc, termReady, events, data_tx, chan, rxAlive, spc,
                   collected_data, ptyIn, drained, unlocks, merged, journal,
                   sendCalls>>
    /\ UNCHANGED <<tvars, ovars>>

\* SimulationEvent::Marker: record Marker.
SimMarker ==
    /\ AtEvent("Marker")
    /\ recorded_events' = Append(recorded_events, MarkerEv(now, script[si].data))
    /\ si' = si + 1
    /\ UNCHANGED <<script, now, child, childOut, ptyBuf, sigBlocked, sigPending,
                   rpc, termReady, events, data_tx, chan, rxAlive, spc,
                   collected_data, ptyIn, drained, unlocks, merged, journal,
                   sendCalls>>
    /\ UNCHANGED <<tvars, ovars>>

\* End of the script: the closure returns recorded_events; control_rx is
\* dropped with whatever it still holds.
SimReturn ==
    /\ spc = "run"
    /\ si > Len(script)
    /\ spc' = "returned"
    /\ rxAlive' = FALSE
    /\ chan' = <<>>
    /\ UNCHANGED <<script, now, child, childOut, ptyBuf, sigBlocked, sigPending,
                   rpc, termReady, events, data_tx, si, collected_data,
                   recorded_events, ptyIn, drained, unlocks, merged, journal,
                   sendCalls>>
    /\ UNCHANGED <<tvars, ovars>>

Simulator == SimInput \/ SimInputFails \/ SimBarrierRecv \/ SimSleep \/ SimMarker \/ SimReturn

NextR == Environment \/ Recorder \/ Simulator

SpecR == InitR /\ [][NextR]_vars

\* The recorder thread and the input thread are scheduled threads: each keeps
\* running while it can take a step.  The child and the clock owe nothing.
SpecRFair == SpecR /\ WF_vars(Recorder) /\ WF_vars(Simulator)

\* --------------------------------------------------- claims on recording

IsSimEvent(e) == e.kind # "Output"
IsInput(e) == e.kind = "Input"
IsWaitBarrier(e) == e.kind = "WaitBarrier"

\* The script events the input thread has executed so far.
Executed == SubSeq(script, 1, si - 1)

\* C3: once the recording is persisted, the Output events of the journal hold
\* every byte the child wrote to the terminal, in order.
C3_EveryByteJournaled ==
    rpc = "done" => Bytes(SelectSeq(journal, IsOutput)) = childOut

\* C4: every recorded BarrierUnlocked(needle) rests on an occurrence of the
\* needle in the forwarded output that lies wholly behind the bytes drained by
\* the previous barrier, and an Input behind a barrier in the script has been
\* written only if that barrier is unlocked.
C4_InputGatedByNeedle ==
    LET stream == Bytes(events)
        barriers == SelectSeq(Executed, IsWaitBarrier)
    IN  /\ Len(unlocks) = Len(barriers)
        /\ Len(ptyIn) = Len(SelectSeq(Executed, IsInput))
        /\ \A k \in 1..Len(unlocks) :
              LET u == unlocks[k]
              IN  /\ u.needle = barriers[k].data
                  /\ u.from = (IF k = 1 THEN 0 ELSE unlocks[k - 1].to)
                  /\ u.from <= u.to - Len(u.needle)
                  /\ u.to <= Len(stream)
                  /\ SubSeq(stream, u.to - Len(u.needle) + 1, u.to) = u.needle

C4_Witness == Len(unlocks) = 2 /\ Len(ptyIn) = 2

\* C5: an input thread that stopped at a barrier on End never leaves the
\* barrier's needle behind in its rolling buffer: had the needle been there,
\* the barrier would have unlocked.
C5_NeedleInBufferUnlocks ==
    (spc = "returned" /\ si <= Len(script)) =>
        FindSubslice(collected_data, script[si].data) = None

\* C6: with an input thread, the persisted journal is sorted by timestamp and,
\* for every timestamp, holds the recorder's events of that timestamp and the
\* input thread's events of that timestamp, each in the order their thread
\* produced them, and nothing else.
C6_JournalSortedStable ==
    (rpc = "done" /\ spc # "none") =>
        /\ Len(journal) = Len(events) + Len(recorded_events)
        /\ \A i \in 1..Len(journal) : \A j \in i..Len(journal) :
              journal[i].ts <= journal[j].ts
        /\ \A t \in 0..MaxTime :
              LET OutAt(e) == IsOutput(e) /\ e.ts = t
                  SimAt(e) == IsSimEvent(e) /\ e.ts = t
                  At(e) == e.ts = t
              IN  /\ SelectSeq(journal, OutAt) = SelectSeq(events, At)
                  /\ SelectSeq(journal, SimAt) = SelectSeq(recorded_events, At)

\* Two input-thread events share a timestamp, and the sort moved an input-thread
\* event in front of an Output event.
C6_Witness ==
    /\ rpc = "done"
    /\ \E i \in 1..Len(journal) : \E j \in (i + 1)..Len(journal) :
          /\ IsSimEvent(journal[i]) /\ IsSimEvent(journal[j])
          /\ journal[i].ts = journal[j].ts
    /\ \E i \in 1..(Len(journal) - 1) :
          IsSimEvent(journal[i]) /\ IsOutput(journal[i + 1])

\* C7: once the child has exited, the recorder gets to persist the journal.
C7_RecorderTerminates == (child = "zombie") ~> (rpc = "done")

\* The recorder has sent End or given up sending, and nothing is left in the
\* channel, while the script is not finished.
StoppedByEnd ==
    /\ rpc \in {"join", "save", "done"}
    /\ spc \notin {"none", "panicked"}
    /\ chan = <<>>
    /\ si <= Len(script)

\* C8: when End reaches the input thread in a barrier, the thread has
\* returned: it stands at that barrier, has recorded one event per script
\* event in front of it and written only the Inputs in front of it; from its
\* return on nothing of this changes, and the persisted journal holds exactly
\* those events next to the recorder's.  While the recorder waits in join, the
\* input thread has returned or can take a step, so the join comes to an end.
C8_EndStopsSimulation ==
    /\ [](rpc = "join" => (spc \in {"returned", "panicked"} \/ ENABLED Simulator))
    /\ [](StoppedByEnd =>
            /\ spc = "returned"
            /\ script[si].kind = "WaitBarrier"
            /\ Len(recorded_events) = si - 1
            /\ Len(ptyIn) = Len(SelectSeq(Executed, IsInput))
            /\ rpc = "done" =>
                  /\ SelectSeq(journal, IsSimEvent) = recorded_events
                  /\ SelectSeq(journal, IsOutput) = events)
    /\ [][spc = "returned" => UNCHANGED <<spc, si, recorded_events, ptyIn>>]_vars

C8_Witness ==
    /\ StoppedByEnd
    /\ rpc = "done"
    /\ si = 3
    /\ Len(recorded_events) = 2

\* The event the input thread records for an executed script event.
Realized(e) ==
    CASE e.kind = "Input" -> "InputRealized"
      [] e.kind = "WaitBarrier" -> "BarrierUnlocked"
      [] e.kind = "Sleep" -> "SleepFinished"
      [] e.kind = "Marker" -> "Marker"

\* C9: the input thread's recorded events are, in script order, one per
\* executed script event with that event's payload; the PTY received exactly
\* the executed Inputs, once each and in order; and the persisted journal
\* keeps the input thread's events in that order.
C9_RecordedInScriptOrder ==
    spc # "none" =>
        /\ Len(recorded_events) = si - 1
        /\ \A k \in 1..Len(recorded_events) :
              /\ recorded_events[k].kind = Realized(script[k])
              /\ recorded_events[k].data = script[k].data
              /\ recorded_events[k].dur = script[k].dur
        /\ LET inputs == SelectSeq(Executed, IsInput)
           IN  ptyIn = [k \in 1..Len(inputs) |-> inputs[k].data]
        /\ rpc = "done" => SelectSeq(journal, IsSimEvent) = recorded_events

\* BarrierUnlocked and the InputRealized behind it carry the same timestamp.
C9_Witness ==
    /\ rpc = "done"
    /\ \E i \in 1..(Len(journal) - 1) : \E j \in (i + 1)..Len(journal) :
          /\ journal[i].kind = "BarrierUnlocked"
          /\ journal[j].kind = "InputRealized"
          /\ journal[i].ts = journal[j].ts
    /\ Len(ptyIn) = 2

\* C10: a read recorded after the input thread has gone still appends its
\* Output event, stamped with the current time, and sends nothing; with
\* data_tx None the recorder never calls send again (no forward, no End); and
\* the persisted journal holds every Output event.
C10_FailedForwardDropped ==
    /\ [][(rpc = "drain" /\ Len(ptyBuf') < Len(ptyBuf) /\ spc = "returned") =>
             /\ Len(events') = Len(events) + 1
             /\ events'[Len(events')] =
                   Output(now, SubSeq(ptyBuf, 1, Len(ptyBuf) - Len(ptyBuf')))
             /\ data_tx' = "none"
             /\ chan' = chan
             /\ rpc' = "drain"]_vars
    /\ [][(data_tx = "none" /\ spc # "none") =>
             (sendCalls' = sendCalls /\ data_tx' = "none")]_vars
    /\ [](rpc = "done" => SelectSeq(journal, IsOutput) = events)

\* The first forward failed, a later output was recorded without a send, no End
\* was sent, and the journal was persisted.
C10_Witness ==
    /\ rpc = "done"
    /\ spc = "returned"
    /\ Len(events) >= 2
    /\ sendCalls = 1
    /\ si > Len(script)

\* C11: a panicked input thread makes record fail: with the thread panicked
\* the recorder never reaches the save and no journal is written; the join on
\* a panicked thread can always be taken; and record returns the error only
\* for a panicked thread, with no journal written and nothing left to do.
C11_PanicIsHardFailure ==
    /\ spc = "panicked" => (rpc \notin {"save", "done"} /\ journal = <<>>)
    /\ (rpc = "join" /\ spc = "panicked") => ENABLED RecJoin
    /\ rpc = "error" => (spc = "panicked" /\ journal = <<>> /\ ~ENABLED Recorder)

C11_Witness ==
    /\ rpc = "error"
    /\ child = "reaped"
    /\ script[si].kind = "WaitBarrier"
    /\ script[si].data = <<>>
    /\ events # <<>>

\* The place in the journal of the k-th event of a kind.
PlaceOf(kind, k) ==
    CHOOSE i \in 1..Len(journal) :
        /\ journal[i].kind = kind
        /\ Cardinality({ h \in 1..i : journal[h].kind = kind }) = k

\* The Output event, counted among the recorder's events, whose bytes hold
\* the last byte of the occurrence of the needle that unlocked barrier k.
Completing(k) ==
    CHOOSE j \in 1..Len(events) :
        /\ Len(Bytes(SubSeq(events, 1, j - 1))) < unlocks[k].to
        /\ unlocks[k].to <= Len(Bytes(SubSeq(events, 1, j)))

\* C32: in the persisted journal of a recording with a simulator, every
\* BarrierUnlocked stands behind the Output event whose bytes completed the
\* occurrence of its needle, and its timestamp is not smaller than that
\* Output's.
C32_UnlockedBehindItsOutput ==
    (rpc = "done" /\ spc = "returned") =>
        \A k \in 1..Len(unlocks) :
            LET b == PlaceOf("BarrierUnlocked", k)
                o == PlaceOf("Output", Completing(k))
            IN  /\ journal[b].data = unlocks[k].needle
                /\ journal[o] = events[Completing(k)]
                /\ o < b
                /\ journal[o].ts <= journal[b].ts

\* Two barriers were unlocked, one at the very timestamp of the Output that
\* completed its needle, one at a later time.
C32_Witness ==
    /\ rpc = "done"
    /\ spc = "returned"
    /\ Len(unlocks) = 2
    /\ \E k \in 1..2 :
          journal[PlaceOf("BarrierUnlocked", k)].ts = events[Completing(k)].ts
    /\ \E k \in 1..2 :
          journal[PlaceOf("BarrierUnlocked", k)].ts > events[Completing(k)].ts

\* ------------------------------------------------------------ journal file
\* In this section a Duration is its number of nanoseconds and a byte is a
\* one-character string.

\* Width of the u64 the writer converts a number of microseconds to, scaled
\* down: a u64 holds the values below 2^U64Bits.
U64Bits == 4
U64Limit == 2 ^ U64Bits
\* Events in a journal handed to the writer.
MaxJournal == 2

\* TERMREC_RECORDING_HEADER, TERMREC_INPUT_HEADER
TERMREC_RECORDING_HEADER ==
    <<"t", "e", "r", "m", "r", "e", "c", ":", "v", "1", ":", "r", "e", "c", ":">>
TERMREC_INPUT_HEADER ==
    <<"t", "e", "r", "m", "r", "e", "c", ":", "v", "1", ":", "i", "n", "p", ":">>

\* The line continuation the writer puts behind the header and every record.
EndOfRecord == <<"\\", "\n">>

DigitChars == <<"0", "1", "2", "3", "4", "5", "6", "7", "8", "9">>

\* Display of a u64: its decimal digits.
RECURSIVE FormatNum(_)
FormatNum(n) ==
    IF n < 10 THEN <<DigitChars[n + 1]>>
    ELSE FormatNum(n \div 10) \o <<DigitChars[(n % 10) + 1]>>

\* The record tag of an event variant.
Tag(kind) ==
    CASE kind = "Marker" -> "m"
      [] kind = "Output" -> "o"
      [] kind = "InputRealized" -> "i"
      [] kind = "SleepFinished" -> "s"
      [] kind = "BarrierUnlocked" -> "w"

\* write_cmd_data: "{cmd}:{timestamp}:{data_len}:", the data, "\\\n".
WriteCmdData(cmd, timestamp, data) ==
    <<cmd, ":">> \o FormatNum(timestamp) \o <<":">> \o FormatNum(Len(data))
        \o <<":">> \o data \o EndOfRecord

\* duration.as_micros() as u64: the cast keeps the low bits.
SleepMicros(duration) == AsMicros(duration) % U64Limit

\* write_cmd_duration: "{cmd}:{timestamp}:{duration_us}:\\\n".
WriteCmdDuration(cmd, timestamp, duration) ==
    <<cmd, ":">> \o FormatNum(timestamp) \o <<":">>
        \o FormatNum(SleepMicros(duration)) \o <<":">> \o EndOfRecord

\* The loop of save_recording_termrec from event i on, f being the bytes
\* written so far: a timestamp whose microseconds do not fit a u64 ends it
\* with "Timestamp too large", the file keeping what was written.
RECURSIVE WriteEvents(_, _, _)
WriteEvents(evs, i, f) ==
    IF i > Len(evs) THEN [ok |-> TRUE, file |-> f]
    ELSE LET timestamp == AsMicros(evs[i].ts)
         IN  IF timestamp >= U64Limit THEN [ok |-> FALSE, file |-> f]
             ELSE WriteEvents(evs, i + 1,
                    f \o (IF evs[i].kind = "SleepFinished"
                            THEN WriteCmdDuration(Tag(evs[i].kind), timestamp, evs[i].dur)
                            ELSE WriteCmdData(Tag(evs[i].kind), timestamp, evs[i].data)))

save_recording_termrec(evs) ==
    WriteEvents(evs, 1, TERMREC_RECORDING_HEADER \o EndOfRecord)

IsDigit(c) == \E i \in 1..10 : DigitChars[i] = c
DigitValue(c) == (CHOOSE i \in 1..10 : DigitChars[i] = c) - 1

RECURSIVE DigitsValue(_)
DigitsValue(s) ==
    IF s = <<>> THEN 0
    ELSE DigitsValue(SubSeq(s, 1, Len(s) - 1)) * 10 + DigitValue(s[Len(s)])

\* u64::from_str: an optional "+" and at least one digit, the value fitting a
\* u64; None otherwise.
U64FromStr(s) ==
    LET d == IF s # <<>> /\ s[1] = "+" THEN Tail(s) ELSE s
    IN  IF d = <<>> \/ \E i \in 1..Len(d) : ~IsDigit(d[i]) THEN None
        ELSE IF DigitsValue(d) >= U64Limit THEN None
        ELSE DigitsValue(d)

ReadError == [ok |-> FALSE, val |-> 0, data |-> <<>>, next |-> 0]

\* read_num from position pos (the first unread byte) of the file: the bytes
\* up to and including the next ':' (read_until), the ones in front of it
\* parsed as a u64.
read_num(bytes, pos) ==
    LET colons == { i \in pos..Len(bytes) : bytes[i] = ":" }
        end == IF colons = {} THEN Len(bytes)
               ELSE CHOOSE i \in colons : \A j \in colons : i <= j
        num_bytes == end - pos + 1
    IN  IF num_bytes <= 1 \/ bytes[end] # ":" THEN ReadError
        ELSE LET num == U64FromStr(SubSeq(bytes, pos, end - 1))
             IN  IF num = None THEN ReadError
                 ELSE [ok |-> TRUE, val |-> num, data |-> <<>>, next |-> end + 1]

\* read_duration: read_num, Duration::from_micros.
read_duration(bytes, pos) ==
    LET num == read_num(bytes, pos)
    IN  IF ~num.ok THEN ReadError
        ELSE [num EXCEPT !.val = FromMicros(num.val)]

\* A read_data that returns the bytes there are when the file ends inside
\* the payload.
read_data_to_eof(bytes, pos) ==
    LET buf_len == read_num(bytes, pos)
        end == IF buf_len.next + buf_len.val - 1 > Len(bytes) THEN Len(bytes)
               ELSE buf_len.next + buf_len.val - 1
    IN  IF ~buf_len.ok THEN ReadError
        ELSE [ok |-> TRUE, val |-> 0,
              data |-> SubSeq(bytes, buf_len.next, end),
              next |-> end + 1]

\* read_data: read_num for the length, then read_exact of that many bytes.
read_data(bytes, pos) ==
    LET buf_len == read_num(bytes, pos)
    IN  IF ~buf_len.ok THEN ReadError
        ELSE IF buf_len.next + buf_len.val - 1 > Len(bytes) THEN ReadError
        ELSE [ok |-> TRUE, val |-> 0,
              data |-> SubSeq(bytes, buf_len.next, buf_len.next + buf_len.val - 1),
              next |-> buf_len.next + buf_len.val]

\* What a loader returns: Ok(events), or an error. A panic of the loader is
\* the "error" LoadPanic, which ends the process instead of being returned.
LoadOk(evs) == [ok |-> TRUE, events |-> evs, err |-> ""]
LoadFailed(why) == [ok |-> FALSE, events |-> <<>>, err |-> why]
LoadPanic == LoadFailed("panic")
LoadError == LoadFailed("format")

\* The variant of a record tag of a recording, "" for any other byte.
KindOfTag(c) ==
    CASE c = "o" -> "Output"
      [] c = "i" -> "InputRealized"
      [] c = "w" -> "BarrierUnlocked"
      [] c = "s" -> "SleepFinished"
      [] c = "m" -> "Marker"
      [] OTHER -> ""

\* The end of a "--" comment that starts at pos: behind the next newline, or
\* the end of the file.
read_line_comment(bytes, pos) ==
    LET nls == { i \in pos..Len(bytes) : bytes[i] = "\n" }
    IN  IF nls = {} THEN Len(bytes) + 1
        ELSE (CHOOSE i \in nls : \A j \in nls : i <= j) + 1

\* load_recording_termec_format from position pos on, acc being the events
\* pushed so far: fewer than two bytes left end the loop.
RECURSIVE load_recording_termec_format(_, _, _)
load_recording_termec_format(bytes, pos, acc) ==
    IF pos + 1 > Len(bytes) THEN LoadOk(acc)
    ELSE LET c1 == bytes[pos]
             c2 == bytes[pos + 1]
         IN  IF c2 = ":" /\ KindOfTag(c1) # ""
               THEN LET timestamp == read_duration(bytes, pos + 2)
                    IN  IF ~timestamp.ok THEN LoadError
                        ELSE IF c1 = "s"
                          THEN LET duration == read_duration(bytes, timestamp.next)
                               IN  IF ~duration.ok THEN LoadError
                                   ELSE load_recording_termec_format(bytes, duration.next,
                                          Append(acc, SleepFinished(timestamp.val, duration.val)))
                          ELSE LET data == read_data(bytes, timestamp.next)
                               IN  IF ~data.ok THEN LoadError
                                   ELSE load_recording_termec_format(bytes, data.next,
                                          Append(acc, Event(timestamp.val, KindOfTag(c1),
                                                            data.data, 0)))
             ELSE IF c1 = "-" /\ c2 = "-"
               THEN load_recording_termec_format(bytes, read_line_comment(bytes, pos + 2), acc)
             ELSE IF (c1 = "\\" /\ c2 = "\n") \/ (c1 = "\n" /\ c2 = "\n")
               THEN load_recording_termec_format(bytes, pos + 2, acc)
             ELSE LoadError

\* BufRead::lines: the file cut at every "\n", a "\r" in front of it dropped;
\* bytes behind the last "\n" are a line, nothing behind it is none.
RECURSIVE Lines(_)
Lines(bytes) ==
    IF bytes = <<>> THEN <<>>
    ELSE LET nls == { i \in 1..Len(bytes) : bytes[i] = "\n" }
             end == IF nls = {} THEN Len(bytes) + 1
                    ELSE CHOOSE i \in nls : \A j \in nls : i <= j
             line == SubSeq(bytes, 1, end - 1)
         IN  << IF nls # {} /\ line # <<>> /\ line[Len(line)] = "\r"
                  THEN SubSeq(line, 1, Len(line) - 1) ELSE line >>
             \o Lines(SubSeq(bytes, end + 1, Len(bytes)))

NanosPerSec == 1000000000

\* serde_json::Value, as far as the loader looks at it: a number (as_f64,
\* held as the nanoseconds Duration::from_secs_f64 makes of it, negative for
\* a negative number), a string, an array of these; JsonInvalid is the Err
\* of serde_json::from_str.
JsonNum(ns) == [t |-> "num", num |-> ns, str |-> <<>>, arr |-> <<>>]
JsonStr(b) == [t |-> "str", num |-> 0, str |-> b, arr |-> <<>>]
JsonArr(a) == [t |-> "arr", num |-> 0, str |-> <<>>, arr |-> a]
JsonInvalid == [t |-> "invalid", num |-> 0, str |-> <<>>, arr |-> <<>>]

\* The text without the blanks around it.
RECURSIVE Trim(_)
Trim(s) ==
    IF s # <<>> /\ s[1] = " " THEN Trim(Tail(s))
    ELSE IF s # <<>> /\ s[Len(s)] = " " THEN Trim(SubSeq(s, 1, Len(s) - 1))
    ELSE s

RECURSIVE Pow10(_)
Pow10(n) == IF n = 0 THEN 1 ELSE 10 * Pow10(n - 1)

AllDigits(s) == s # <<>> /\ \A i \in 1..Len(s) : IsDigit(s[i])

\* A JSON number of the form [-]digits[.digits] with at most nine fraction
\* digits, in nanoseconds; no number for any other text.
JsonNumber(s) ==
    LET neg == s # <<>> /\ s[1] = "-"
        u == IF neg THEN Tail(s) ELSE s
        dots == { i \in 1..Len(u) : u[i] = "." }
        int == IF dots = {} THEN u ELSE SubSeq(u, 1, (CHOOSE i \in dots : TRUE) - 1)
        frac == IF dots = {} THEN <<>>
                ELSE SubSeq(u, (CHOOSE i \in dots : TRUE) + 1, Len(u))
    IN  IF Cardinality(dots) > 1 \/ ~AllDigits(int) THEN <<>>
        ELSE IF dots # {} /\ (~AllDigits(frac) \/ Len(frac) > 9) THEN <<>>
        ELSE LET ns == DigitsValue(int) * NanosPerSec
                         + DigitsValue(frac) * Pow10(9 - Len(frac))
             IN  << IF neg THEN 0 - ns ELSE ns >>

\* A JSON string without escapes: the bytes between its quotes; no string for
\* any other text.
JsonString(s) ==
    IF Len(s) >= 2 /\ s[1] = "\"" /\ s[Len(s)] = "\""
         /\ \A i \in 2..(Len(s) - 1) : s[i] \notin {"\"", "\\"}
      THEN << SubSeq(s, 2, Len(s) - 1) >>
      ELSE <<>>

JsonScalar(s) ==
    LET t == Trim(s)
    IN  IF JsonString(t) # <<>> THEN JsonStr(JsonString(t)[1])
        ELSE IF JsonNumber(t) # <<>> THEN JsonNum(JsonNumber(t)[1])
        ELSE JsonInvalid

\* The texts between the commas of s that stand outside of strings, from
\* position pos on: cur is the text since the last such comma, quoted tells
\* whether pos is inside a string.
RECURSIVE SplitElements(_, _, _, _)
SplitElements(s, pos, cur, quoted) ==
    IF pos > Len(s) THEN <<cur>>
    ELSE IF s[pos] = "," /\ ~quoted
      THEN <<cur>> \o SplitElements(s, pos + 1, <<>>, FALSE)
    ELSE SplitElements(s, pos + 1, Append(cur, s[pos]),
                       IF s[pos] = "\"" THEN ~quoted ELSE quoted)

\* serde_json::from_str on the lines that journals are made of: a number, a
\* string, or an array of numbers and strings.
JsonFromStr(line) ==
    LET t == Trim(line)
    IN  IF Len(t) >= 2 /\ t[1] = "[" /\ t[Len(t)] = "]"
          THEN LET inner == SubSeq(t, 2, Len(t) - 1)
                   texts == IF Trim(inner) = <<>> THEN <<>>
                            ELSE SplitElements(inner, 1, <<>>, FALSE)
                   arr == [i \in 1..Len(texts) |-> JsonScalar(texts[i])]
               IN  IF \E i \in 1..Len(arr) : arr[i] = JsonInvalid THEN JsonInvalid
                   ELSE JsonArr(arr)
          ELSE JsonScalar(t)

\* The results of asciinema_line_to_event: LineEvent(ev) is Ok(Some(ev)),
\* LineNone is Ok(None), LineError(why) an Err.
LineEvent(ev) == [r |-> "event", ev |-> <<ev>>, err |-> ""]
LineNone == [r |-> "none", ev |-> <<>>, err |-> ""]
LineError(why) == [r |-> "error", ev |-> <<>>, err |-> why]
LinePanic == [r |-> "panic", ev |-> <<>>, err |-> "panic"]

\* The body of asciinema_line_to_event behind the parse: indexing the array
\* behind its end and Duration::from_secs_f64 of a negative number panic.
EventOfJson(parsed_json) ==
    LET arr == parsed_json.arr
    IN  IF parsed_json = JsonInvalid THEN LineError("Failed to parse json")
        ELSE IF parsed_json.t # "arr" THEN LineError("Expected json array")
        ELSE IF Len(arr) < 1 THEN LinePanic
        ELSE IF arr[1].t # "num" THEN LineError("Expected number")
        ELSE IF Len(arr) < 2 THEN LinePanic
        ELSE IF arr[2].t # "str" THEN LineError("Expected string")
        ELSE IF arr[2].str = <<"m">> THEN LineNone
        ELSE IF arr[2].str = <<"r">> THEN LineError("Resize unsuported")
        ELSE IF arr[2].str # <<"o">> THEN LineError("Unknown event")
        ELSE IF Len(arr) < 3 THEN LinePanic
        ELSE IF arr[3].t # "str" THEN LineError("Expected string")
        ELSE IF arr[1].num < 0 THEN LinePanic
        ELSE LineEvent(Output(arr[1].num, arr[3].str))

\* asciinema_line_to_event: serde_json::from_str of the line, then the event
\* of the value.
asciinema_line_to_event(line) == EventOfJson(JsonFromStr(line))

\* The collect of load_recording_asciinema_format over the lines from i on:
\* the first Err or panic ends it.
RECURSIVE CollectLines(_, _, _)
CollectLines(lines, i, acc) ==
    IF i > Len(lines) THEN LoadOk(acc)
    ELSE LET r == asciinema_line_to_event(lines[i])
         IN  CASE r.r = "panic" -> LoadPanic
               [] r.r = "error" -> LoadFailed(r.err)
               [] r.r = "none" -> CollectLines(lines, i + 1, acc)
               [] r.r = "event" -> CollectLines(lines, i + 1, acc \o r.ev)

\* A loader that takes the first line for an entry.
load_asciinema_first_line_too(bytes) ==
    CollectLines(Lines(bytes), 1, <<>>)

\* load_recording_asciinema_format on the file read from its start:
\* lines().skip(1).
load_recording_asciinema_format(bytes) ==
    CollectLines(Lines(bytes), 2, <<>>)

\* load_recording: read_exact of the header panics ("File too small") on a
\* file shorter than it; the recording header selects the termrec reader, the
\* input header is refused, any other file is read again from its start as
\* asciinema.
load_recording(bytes) ==
    LET n == Len(TERMREC_RECORDING_HEADER)
        header_buf == SubSeq(bytes, 1, n)
    IN  IF Len(bytes) < n THEN LoadPanic
        ELSE IF header_buf = TERMREC_RECORDING_HEADER
          THEN load_recording_termec_format(bytes, n + 1, <<>>)
        ELSE IF header_buf = TERMREC_INPUT_HEADER
          THEN LoadFailed("not a recording")
        ELSE load_recording_asciinema_format(bytes)

\* Payloads: empty, and ones made of the bytes the format uses.
Payloads ==
    { <<>>, <<":", "\\", "\n">>, <<"\\", "\n", "s", ":", "0", ":", "0", ":">> }

\* Durations: zero, a microsecond and a nanosecond, the largest number of
\* microseconds a u64 holds, and the first beyond.
Durations ==
    { 0, NanosPerMicro + 1, FromMicros(U64Limit - 1), FromMicros(U64Limit) }

RecordingEvents ==
    { Event(ts, kind, data, 0) :
        ts \in Durations,
        kind \in {"Output", "InputRealized", "BarrierUnlocked", "Marker"},
        data \in Payloads }
    \cup { SleepFinished(ts, dur) : ts \in Durations, dur \in Durations }

Recordings == UNION { [1..n -> RecordingEvents] : n \in 0..MaxJournal }

InitC ==
    /\ cpc = "start"
    /\ saveIn \in Recordings
    /\ saveOk = FALSE
    /\ file = <<>>
    /\ loadOk = FALSE
    /\ loaded = <<>>
    /\ loadErr = ""
    /\ made_of = <<>>
    /\ IdleT
    /\ IdleR
    /\ IdleM
    /\ IdleP
    /\ IdleU

\* save_recording_termrec(events, path)
Save ==
    /\ cpc = "start"
    /\ LET r == save_recording_termrec(saveIn)
       IN  /\ saveOk' = r.ok
           /\ file' = r.file
    /\ cpc' = "saved"
    /\ UNCHANGED <<saveIn, loadOk, loaded, loadErr, made_of>>
    /\ UNCHANGED <<tvars, rvars, mvars, pvars, uvars>>

\* load_recording(path) on the file at the path.
Load ==
    /\ cpc = "saved"
    /\ LET r == load_recording(file)
       IN  /\ loadOk' = r.ok
           /\ loaded' = r.events
           /\ loadErr' = r.err
           /\ cpc' = IF r = LoadPanic THEN "panicked" ELSE "loaded"
    /\ UNCHANGED <<saveIn, saveOk, file, made_of>>
    /\ UNCHANGED <<tvars, rvars, mvars, pvars, uvars>>

NextC == Save \/ Load

SpecC == InitC /\ [][NextC]_vars

\* The timestamps and sleep lengths of the events are whole microseconds that
\* fit a u64.
WholeMicros(evs) ==
    \A i \in 1..Len(evs) :
        /\ evs[i].ts % NanosPerMicro = 0
        /\ evs[i].dur % NanosPerMicro = 0
        /\ AsMicros(evs[i].dur) < U64Limit

\* C12: a journal the writer accepted is loaded back as the identical sequence
\* of (timestamp, event) pairs.
C12_RoundTrip == (cpc = "loaded" /\ saveOk) => (loadOk /\ loaded = saveIn)

\* What does hold of the round trip: a journal of whole microseconds that fit
\* a u64 is loaded back identical, whatever bytes its payloads hold.
RoundTripOfWholeMicros ==
    (cpc = "loaded" /\ saveOk /\ WholeMicros(saveIn)) => (loadOk /\ loaded = saveIn)

\* The record of an event with every number at its true value in
\* microseconds.
TrueRecord(e) ==
    IF e.kind = "SleepFinished"
      THEN <<Tag(e.kind), ":">> \o FormatNum(AsMicros(e.ts)) \o <<":">>
             \o FormatNum(AsMicros(e.dur)) \o <<":">> \o EndOfRecord
      ELSE WriteCmdData(Tag(e.kind), AsMicros(e.ts), e.data)

RECURSIVE TrueRecords(_, _)
TrueRecords(evs, n) ==
    IF n = 0 THEN <<>> ELSE TrueRecords(evs, n - 1) \o TrueRecord(evs[n])

\* The events whose timestamp in microseconds does not fit a u64.
TooLarge(evs) == { i \in 1..Len(evs) : AsMicros(evs[i].ts) >= U64Limit }

\* C29: the writer fails with "Timestamp too large" on a journal with an
\* event whose timestamp in microseconds does not fit a u64, and the numbers
\* of the records it writes, timestamps and sleep lengths, are the true
\* values, never wrapped ones.
C29_NoWrappedNumber ==
    cpc \in {"saved", "loaded"} =>
        /\ saveOk <=> TooLarge(saveIn) = {}
        /\ LET written == IF TooLarge(saveIn) = {} THEN Len(saveIn)
                          ELSE (CHOOSE i \in TooLarge(saveIn) :
                                  \A j \in TooLarge(saveIn) : i <= j) - 1
           IN  file = TERMREC_RECORDING_HEADER \o EndOfRecord \o TrueRecords(saveIn, written)

\* ------------------------------------------------------ hand-written files
\* load_recording and load_input on files that were not left by the writer:
\* journals and input scripts written by hand, asciinema casts, and files too
\* short for a header. made_of tells what a file was put together from.

\* Pieces of the body of a file.
MaxPieces == 3

\* SimulationEvent values as load_input returns them; only an Input has a
\* timestamp.
InputEvent(timestamp, data) == Event(timestamp, "Input", data, 0)
WaitBarrierEvent(data) == Event(0, "WaitBarrier", data, 0)
SleepEvent(duration) == Event(0, "Sleep", <<>>, duration)
MarkerEvent(data) == Event(0, "Marker", data, 0)

\* The loop of a validation that takes a Marker for the start of a phase.
RECURSIVE ValidateLoopMarkerResets(_, _, _)
ValidateLoopMarkerResets(evs, i, last) ==
    IF i > Len(evs) THEN TRUE
    ELSE IF evs[i].kind = "Input"
      THEN /\ evs[i].ts >= last
           /\ ValidateLoopMarkerResets(evs, i + 1, evs[i].ts)
    ELSE ValidateLoopMarkerResets(evs, i + 1, 0)

\* The loop of validitate_simulation_events from event i on, last being its
\* last_timestamp: TRUE for Ok(()).
RECURSIVE ValidateLoop(_, _, _)
ValidateLoop(evs, i, last) ==
    IF i > Len(evs) THEN TRUE
    ELSE IF evs[i].kind = "Input"
      THEN /\ evs[i].ts >= last
           /\ ValidateLoop(evs, i + 1, evs[i].ts)
    ELSE IF evs[i].kind \in {"WaitBarrier", "Sleep"}
      THEN ValidateLoop(evs, i + 1, 0)
    ELSE ValidateLoop(evs, i + 1, last)

validitate_simulation_events(evs) == ValidateLoop(evs, 1, 0)

\* The loop of load_input from position pos on, acc being the events pushed
\* so far: fewer than two bytes left end the loop.
RECURSIVE ReadInput(_, _, _)
ReadInput(bytes, pos, acc) ==
    IF pos + 1 > Len(bytes) THEN LoadOk(acc)
    ELSE LET c1 == bytes[pos]
             c2 == bytes[pos + 1]
         IN  IF c1 = "i" /\ c2 = ":"
               THEN LET timestamp_us == read_num(bytes, pos + 2)
                    IN  IF ~timestamp_us.ok THEN LoadError
                        ELSE LET data == read_data(bytes, timestamp_us.next)
                             IN  IF ~data.ok THEN LoadError
                                 ELSE ReadInput(bytes, data.next,
                                        Append(acc, InputEvent(FromMicros(timestamp_us.val),
                                                               data.data)))
             ELSE IF c1 \in {"w", "m"} /\ c2 = ":"
               THEN LET data == read_data(bytes, pos + 2)
                    IN  IF ~data.ok THEN LoadError
                        ELSE ReadInput(bytes, data.next,
                               Append(acc, IF c1 = "w" THEN WaitBarrierEvent(data.data)
                                           ELSE MarkerEvent(data.data)))
             ELSE IF c1 = "s" /\ c2 = ":"
               THEN LET duration == read_duration(bytes, pos + 2)
                    IN  IF ~duration.ok THEN LoadError
                        ELSE ReadInput(bytes, duration.next,
                                       Append(acc, SleepEvent(duration.val)))
             ELSE IF c1 = "-" /\ c2 = "-"
               THEN ReadInput(bytes, read_line_comment(bytes, pos + 2), acc)
             ELSE IF (c1 = "\\" /\ c2 = "\n") \/ (c1 = "\n" /\ c2 = "\n")
               THEN ReadInput(bytes, pos + 2, acc)
             ELSE LoadError

\* load_input: a file shorter than a header and a file with another header
\* are of unknown format, a recording is refused; the events read are
\* returned when they are valid.
load_input(bytes) ==
    LET n == Len(TERMREC_INPUT_HEADER)
        header_buf == SubSeq(bytes, 1, n)
    IN  IF Len(bytes) < n THEN LoadFailed("unknown format")
        ELSE IF header_buf = TERMREC_RECORDING_HEADER
          THEN LoadFailed("not an input file")
        ELSE IF header_buf # TERMREC_INPUT_HEADER THEN LoadFailed("unknown format")
        ELSE LET read == ReadInput(bytes, n + 1, <<>>)
             IN  IF ~read.ok THEN read
                 ELSE IF ~validitate_simulation_events(read.events)
                   THEN LoadFailed("Invalid timestamp")
                 ELSE read

\* A piece of a file: its bytes, what it is, and the event it stands for.
Piece(what, bytes, ev) == [what |-> what, bytes |-> bytes, ev |-> ev]

\* A record as the writer writes it.
Written(e) ==
    Piece("record",
          IF e.kind = "SleepFinished"
            THEN WriteCmdDuration(Tag(e.kind), AsMicros(e.ts), e.dur)
            ELSE WriteCmdData(Tag(e.kind), AsMicros(e.ts), e.data),
          <<e>>)

\* Between the records of either kind of file: comments (one that reads like
\* a record, an empty one) and the blank tags.
Skipped ==
    { Piece("comment", <<"-", "-", "o", ":", "1", ":", "1", ":", "a", "\n">>, <<>>),
      Piece("comment", <<"-", "-", "\n">>, <<>>),
      Piece("blank", <<"\\", "\n">>, <<>>),
      Piece("blank", <<"\n", "\n">>, <<>>) }

\* Records of a recording: written by the writer, and bare ones; a payload
\* with a comment and a blank tag in it.
RecordingRecords ==
    { Written(Output(FromMicros(1), <<"-", "-", "\\", "\n">>)),
      Written(SleepFinished(FromMicros(2), FromMicros(1))),
      Piece("record", <<"i", ":", "2", ":", "0", ":">>, <<InputRealized(FromMicros(2), <<>>)>>) }

\* No commands of a recording: an unknown letter, a tag without its colon.
RecordingUnknown ==
    { Piece("unknown", <<"x", ":", "1", ":", "1", ":", "a">>, <<>>),
      Piece("unknown", <<"o", "-", "1", ":", "1", ":", "a">>, <<>>) }

\* Records of a recording cut short: behind the tag, inside the timestamp,
\* in front of the length, inside the payload, in front of the duration.
RecordingCut ==
    { Piece("cut", <<"o", ":">>, <<>>),
      Piece("cut", <<"o", ":", "1">>, <<>>),
      Piece("cut", <<"o", ":", "1", ":">>, <<>>),
      Piece("cut", <<"o", ":", "1", ":", "3", ":", "a", "b">>, <<>>),
      Piece("cut", <<"s", ":", "1", ":">>, <<>>) }

\* Records of an input script.
InputRecords ==
    { Piece("record", <<"i", ":", "0", ":", "1", ":", "a">>, <<InputEvent(0, <<"a">>)>>),
      Piece("record", <<"i", ":", "1", ":", "1", ":", "a">>, <<InputEvent(FromMicros(1), <<"a">>)>>),
      Piece("record", <<"w", ":", "1", ":", "a">>, <<WaitBarrierEvent(<<"a">>)>>),
      Piece("record", <<"s", ":", "1", ":">>, <<SleepEvent(FromMicros(1))>>),
      Piece("record", <<"m", ":", "0", ":">>, <<MarkerEvent(<<>>)>>) }

\* No commands of an input script: an Output record, an unknown letter.
InputUnknown ==
    { Piece("unknown", <<"o", ":", "1", ":", "1", ":", "a">>, <<>>),
      Piece("unknown", <<"x", ":", "1", ":", "1", ":", "a">>, <<>>) }

\* Records of an input script cut short.
InputCut ==
    { Piece("cut", <<"i", ":", "1">>, <<>>),
      Piece("cut", <<"w", ":", "2", ":", "a">>, <<>>),
      Piece("cut", <<"m", ":">>, <<>>) }

\* The entries of an asciinema cast, a line each.
CastEntries ==
    { Piece("o", <<"[", "0", ".", "5", ",", " ", "\"", "o", "\"", ",", " ", "\"", "a", "\"", "]", "\n">>, <<Output(NanosPerSec \div 2, <<"a">>)>>),
      Piece("o", <<"[", "1", ",", "\"", "o", "\"", ",", "\"", "b", ",", "c", "\"", "]", "\n">>, <<Output(NanosPerSec, <<"b", ",", "c">>)>>),
      Piece("m", <<"[", "0", ".", "5", ",", " ", "\"", "m", "\"", ",", " ", "\"", "\"", "]", "\n">>, <<>>),
      Piece("r", <<"[", "1", ",", " ", "\"", "r", "\"", ",", " ", "\"", "8", "0", "x", "2", "4", "\"", "]", "\n">>, <<>>),
      Piece("other", <<"[", "1", ",", " ", "\"", "i", "\"", ",", " ", "\"", "a", "\"", "]", "\n">>, <<>>) }

\* The first line of an asciinema cast.
CastHeader ==
    <<"{", "\"", "v", "e", "r", "s", "i", "o", "n", "\"", ":", " ", "2", ",", " ", "\"", "w", "i", "d", "t", "h", "\"", ":", " ", "8", "0", "}", "\n">>

\* Files too short for a header: the empty file, a header without its last
\* byte, a cast of one short line.
ShortFiles ==
    { <<>>,
      SubSeq(TERMREC_RECORDING_HEADER, 1, Len(TERMREC_RECORDING_HEADER) - 1),
      <<"{", "\"", "v", "e", "r", "s", "i", "o", "n", "\"", ":", " ", "2", "}">> }

\* Sequences of at most MaxPieces pieces, a record cut short being the last.
Bodies(pieces) ==
    { b \in UNION { [1..n -> pieces] : n \in 0..MaxPieces } :
        \A i \in 1..(Len(b) - 1) : b[i].what # "cut" }

HandWritten ==
    { [format |-> "rec", pieces |-> b] :
        b \in Bodies(Skipped \cup RecordingRecords \cup RecordingUnknown \cup RecordingCut) }
    \cup { [format |-> "inp", pieces |-> b] :
        b \in Bodies(Skipped \cup InputRecords \cup InputUnknown \cup InputCut) }
    \cup { [format |-> "cast", pieces |-> b] : b \in Bodies(CastEntries) }
    \cup { [format |-> "short", pieces |-> <<Piece("bytes", b, <<>>)>>] : b \in ShortFiles }

RECURSIVE BytesOf(_)
BytesOf(pieces) ==
    IF pieces = <<>> THEN <<>>
    ELSE pieces[1].bytes \o BytesOf(Tail(pieces))

\* The bytes of a hand-written file.
FileOf(f) ==
    CASE f.format = "rec" -> TERMREC_RECORDING_HEADER \o BytesOf(f.pieces)
      [] f.format = "inp" -> TERMREC_INPUT_HEADER \o BytesOf(f.pieces)
      [] f.format = "cast" -> CastHeader \o BytesOf(f.pieces)
      [] f.format = "short" -> BytesOf(f.pieces)

\* The events the records of a file stand for.
RECURSIVE EventsOf(_)
EventsOf(pieces) ==
    IF pieces = <<>> THEN <<>>
    ELSE pieces[1].ev \o EventsOf(Tail(pieces))

InitL ==
    /\ cpc = "saved"
    /\ saveIn = <<>>
    /\ saveOk = FALSE
    /\ made_of \in HandWritten
    /\ file = FileOf(made_of)
    /\ loadOk = FALSE
    /\ loaded = <<>>
    /\ loadErr = ""
    /\ IdleT
    /\ IdleR
    /\ IdleM
    /\ IdleP
    /\ IdleU

\* load_input(path) on the file at the path.
LoadInput ==
    /\ cpc = "saved"
    /\ LET r == load_input(file)
       IN  /\ loadOk' = r.ok
           /\ loaded' = r.events
           /\ loadErr' = r.err
    /\ cpc' = "loaded input"
    /\ UNCHANGED <<saveIn, saveOk, file, made_of>>
    /\ UNCHANGED <<tvars, rvars, mvars, pvars, uvars>>

NextL == Load \/ LoadInput

SpecL == InitL /\ [][NextL]_vars

StartsWith(bytes, header) ==
    Len(bytes) >= Len(header) /\ SubSeq(bytes, 1, Len(header)) = header

\* load_recording has ended, with a result or a panic.
LoadEnded == cpc \in {"loaded", "panicked"}

\* C21: load_recording reads every file with the recording header as termrec,
\* refuses every file with the input header as the wrong kind of file, and
\* reads every other file, the empty one and the ones shorter than a header
\* among them, from its start as asciinema, returning a result or an error
\* and never crashing.
C21_AutoDetect ==
    LoadEnded =>
        IF StartsWith(file, TERMREC_RECORDING_HEADER)
          THEN /\ cpc = "loaded"
               /\ [ok |-> loadOk, events |-> loaded, err |-> loadErr]
                    = load_recording_termec_format(file, Len(TERMREC_RECORDING_HEADER) + 1, <<>>)
        ELSE IF StartsWith(file, TERMREC_INPUT_HEADER)
          THEN cpc = "loaded" /\ ~loadOk /\ loadErr = "not a recording"
        ELSE /\ cpc = "loaded"
             /\ [ok |-> loadOk, events |-> loaded, err |-> loadErr]
                  = load_recording_asciinema_format(file)

\* The file is an input script made of records, comments and blank tags.
WrittenScript ==
    /\ made_of.format = "inp"
    /\ \A i \in 1..Len(made_of.pieces) : made_of.pieces[i].what \notin {"unknown", "cut"}

\* Within every phase of the script (a stretch without WaitBarrier and Sleep)
\* the timestamps of the Inputs do not decrease.
PhasesOrdered(evs) ==
    \A i \in 1..Len(evs) : \A j \in (i + 1)..Len(evs) :
        ( /\ evs[i].kind = "Input"
          /\ evs[j].kind = "Input"
          /\ \A k \in (i + 1)..(j - 1) : evs[k].kind \notin {"WaitBarrier", "Sleep"} )
        => evs[i].ts <= evs[j].ts

\* C22: load_input accepts a script exactly when the timestamps of its Inputs
\* do not decrease within a phase, where WaitBarrier and Sleep start a new
\* phase and Marker does not; it then returns the script, and a script with
\* an Input older than its phase allows fails and returns no events.
C22_ValidScripts ==
    (cpc = "loaded input" /\ WrittenScript) =>
        LET input_events == EventsOf(made_of.pieces)
        IN  /\ loadOk <=> PhasesOrdered(input_events)
            /\ loadOk => loaded = input_events
            /\ ~loadOk => (loaded = <<>> /\ loadErr = "Invalid timestamp")

\* A script with a Marker between an Input and an older Input was refused.
C22_Witness ==
    /\ cpc = "loaded input"
    /\ WrittenScript
    /\ EventsOf(made_of.pieces)
         = << InputEvent(FromMicros(1), <<"a">>), MarkerEvent(<<>>), InputEvent(0, <<"a">>) >>
    /\ ~loadOk
    /\ loaded = <<>>

\* The file was read by the reader of its kind: a recording by
\* load_recording, an input script by load_input.
ReadAsItsKind ==
    \/ cpc = "loaded" /\ made_of.format = "rec"
    \/ cpc = "loaded input" /\ made_of.format = "inp"

HasPiece(what) == \E i \in 1..Len(made_of.pieces) : made_of.pieces[i].what = what

\* C23: the readers of recordings and input scripts skip "--" comments up to
\* the next newline and the blank tags without producing events; a two-byte
\* tag that is no command of the file's kind is a format error, and so is a
\* record cut short inside a number or a payload, which never yields a
\* shortened event.
C23_SkippedAndRefused ==
    ReadAsItsKind =>
        IF HasPiece("unknown") \/ HasPiece("cut")
          THEN ~loadOk /\ loaded = <<>> /\ loadErr = "format"
          ELSE /\ loadOk => loaded = EventsOf(made_of.pieces)
               /\ ~loadOk => (made_of.format = "inp" /\ loadErr = "Invalid timestamp")

\* A recording of a comment, a record and a record cut short inside its
\* payload was refused.
C23_Witness ==
    /\ cpc = "loaded"
    /\ made_of.format = "rec"
    /\ Len(made_of.pieces) = 3
    /\ made_of.pieces[1].what = "comment"
    /\ made_of.pieces[2].what = "record"
    /\ made_of.pieces[3] = Piece("cut", <<"o", ":", "1", ":", "3", ":", "a", "b">>, <<>>)
    /\ ~loadOk
    /\ loaded = <<>>

\* C24: reading an asciinema cast skips the first line and maps the later
\* lines by their kind: an "o" entry is one Output with the entry's timestamp
\* and data, an "m" entry is dropped without an error, an "r" entry or one of
\* any other kind makes the whole load fail; the journal holds the "o"
\* entries in the order of the file.
C24_CastEntries ==
    (cpc = "loaded" /\ made_of.format = "cast") =>
        IF HasPiece("r") \/ HasPiece("other")
          THEN ~loadOk /\ loaded = <<>>
          ELSE loadOk /\ loaded = EventsOf(made_of.pieces)

\* A cast of an "o", an "m" and another "o" entry was loaded as two Outputs.
C24_Witness ==
    /\ cpc = "loaded"
    /\ made_of.format = "cast"
    /\ Len(made_of.pieces) = 3
    /\ made_of.pieces[1].what = "o"
    /\ made_of.pieces[2].what = "m"
    /\ made_of.pieces[3].what = "o"
    /\ made_of.pieces[1] # made_of.pieces[3]
    /\ loadOk
    /\ loaded = << made_of.pieces[1].ev[1], made_of.pieces[3].ev[1] >>

\* ------------------------------------------------------------------ measure
\* In this section a Duration is its number of microseconds (a journal loaded
\* from a file holds whole microseconds), a byte is a small number, and an
\* Option is a sequence of at most one element: <<>> is None, <<x>> is Some(x).

\* Events in the journal of a measurement up to an event.
MaxEventJournal == 4
\* Events in the journal of a measurement up to a frame.
MaxFrameJournal == 3

\* A RecordingEvent without its timestamp, as `==` compares it.
Ev(kind, data) == [kind |-> kind, data |-> data, dur |-> 0]
EventOf(entry) == [kind |-> entry.kind, data |-> entry.data, dur |-> entry.dur]

\* A command line argument "<tag><data>": its bytes.
Arg(tag, data) == tag \o data

ParseError == [kind |-> "error", data |-> <<>>, dur |-> 0]

\* A parse_event_cmdline that knows the tag of a sleep as well.
parse_event_cmdline_with_sleep(arg) ==
    LET event == SubSeq(arg, 1, 2)
        data == SubSeq(arg, 3, Len(arg))
    IN  IF Len(arg) < 2 THEN ParseError
        ELSE CASE event = <<"o", ":">> -> Ev("Output", data)
               [] event = <<"w", ":">> -> Ev("BarrierUnlocked", data)
               [] event = <<"i", ":">> -> Ev("InputRealized", data)
               [] event = <<"m", ":">> -> Ev("Marker", data)
               [] event = <<"s", ":">> -> Ev("SleepFinished", data)
               [] OTHER -> ParseError

\* parse_event_cmdline: arg.get(..2) is the event, None for an argument of
\* fewer than two bytes ("Event name missing"); arg.get(2..) is the data.
parse_event_cmdline(arg) ==
    LET event == SubSeq(arg, 1, 2)
        data == SubSeq(arg, 3, Len(arg))
    IN  IF Len(arg) < 2 THEN ParseError
        ELSE CASE event = <<"o", ":">> -> Ev("Output", data)
               [] event = <<"w", ":">> -> Ev("BarrierUnlocked", data)
               [] event = <<"i", ":">> -> Ev("InputRealized", data)
               [] event = <<"m", ":">> -> Ev("Marker", data)
               [] OTHER -> ParseError

\* option.map(parse_event_cmdline)
ParseOption(opt) == IF opt = <<>> THEN <<>> ELSE <<parse_event_cmdline(opt[1])>>

\* The command line option MeasureCmd::run parses into after_event.
AfterEventArg(cmd) == cmd.before_event

\* The loop of filter_only_after_and_before_events from event i on.
RECURSIVE FilterLoop(_, _, _, _, _, _)
FilterLoop(evs, i, in_range, after, before, result) ==
    IF i > Len(evs) THEN result
    ELSE IF after # <<>> /\ after[1] = EventOf(evs[i])
      THEN FilterLoop(evs, i + 1, TRUE, after, before, result)
    ELSE IF before # <<>> /\ before[1] = EventOf(evs[i])
      THEN IF in_range THEN result
           ELSE FilterLoop(evs, i + 1, in_range, after, before, result)
    ELSE FilterLoop(evs, i + 1, in_range, after, before,
                    IF in_range THEN Append(result, evs[i]) ELSE result)

filter_only_after_and_before_events(evs, after, before) ==
    IF after = <<>> /\ before = <<>> THEN evs
    ELSE FilterLoop(evs, 1, after = <<>>, after, before, <<>>)

\* The loop of the to_event arm of MeasureCmd::run from event i on: start and
\* end when it is left.
RECURSIVE ToEventLoop(_, _, _, _, _)
ToEventLoop(rec, i, start, from, to) ==
    IF i > Len(rec) THEN [start |-> start, end |-> <<>>]
    ELSE LET s == IF EventOf(rec[i]) = from THEN <<rec[i].ts>> ELSE start
         IN  IF EventOf(rec[i]) = to THEN [start |-> s, end |-> <<rec[i].ts>>]
             ELSE ToEventLoop(rec, i + 1, s, from, to)

Failed(why) == [ok |-> FALSE, delta |-> 0, why |-> why]
Measured(delta) == [ok |-> TRUE, delta |-> delta, why |-> ""]

\* end.context(..)? - start.context(..)?
MeasureToEventResult(rec, from, to) ==
    LET r == ToEventLoop(rec, 1, <<>>, from, to)
    IN  IF r.end = <<>> THEN Failed("Didn't find --to_event")
        ELSE IF r.start = <<>> THEN Failed("Didn't find --from_event")
        ELSE IF r.end[1] < r.start[1] THEN Failed("panic")
        ELSE Measured(r.end[1] - r.start[1])

\* A find_event_time that takes the last matching event.
find_event_time_last(reference_event, rec) ==
    LET hits == { i \in 1..Len(rec) : EventOf(rec[i]) = reference_event }
    IN  IF hits = {} THEN <<>>
        ELSE <<rec[CHOOSE i \in hits : \A j \in hits : j <= i].ts>>

\* find_event_time: the timestamp of the first event equal to the reference.
find_event_time(reference_event, rec) ==
    LET hits == { i \in 1..Len(rec) : EventOf(rec[i]) = reference_event }
    IN  IF hits = {} THEN <<>>
        ELSE <<rec[CHOOSE i \in hits : \A j \in hits : i <= j].ts>>

\* Frame files of the recording directory.
NoFile == [state |-> "absent", contents |-> <<>>]
Unreadable == [state |-> "unreadable", contents |-> <<>>]
FrameFile(contents) == [state |-> "ok", contents |-> contents]

\* The predicate of the frame arm: equality with the reference frame, or the
\* needle found in the frame ("panic": find_subslice on an empty needle).
frame_matches(cmd, frame_contents) ==
    IF cmd.to_frame # <<>>
      THEN IF cmd.to_frame[1] = frame_contents THEN "yes" ELSE "no"
      ELSE LET index == FindSubslice(frame_contents, cmd.to_frame_with_text[1])
           IN  IF index = Panic THEN "panic"
               ELSE IF index = None THEN "no" ELSE "yes"

FrameFound(timestamp) == [ok |-> TRUE, ts |-> timestamp, why |-> ""]
FrameError(why) == [ok |-> FALSE, ts |-> 0, why |-> why]

\* The loop of a find_timestamp_of_frame that skips every file it cannot read.
RECURSIVE FrameLoopSkippingUnread(_, _, _, _)
FrameLoopSkippingUnread(cmd, rec, files, i) ==
    IF i > Len(rec) THEN FrameError("Frame not found in directory")
    ELSE LET f == files[rec[i].ts]
         IN  IF f.state # "ok" THEN FrameLoopSkippingUnread(cmd, rec, files, i + 1)
             ELSE LET hit == frame_matches(cmd, f.contents)
                  IN  IF hit = "panic" THEN FrameError("panic")
                      ELSE IF hit = "yes" THEN FrameFound(rec[i].ts)
                      ELSE FrameLoopSkippingUnread(cmd, rec, files, i + 1)

\* The loop of find_timestamp_of_frame from entry i on: frame_<timestamp> is
\* read; NotFound goes on to the next entry, any other error ends the search.
RECURSIVE FrameLoop(_, _, _, _)
FrameLoop(cmd, rec, files, i) ==
    IF i > Len(rec) THEN FrameError("Frame not found in directory")
    ELSE LET f == files[rec[i].ts]
         IN  IF f.state = "absent" THEN FrameLoop(cmd, rec, files, i + 1)
             ELSE IF f.state = "unreadable" THEN FrameError("Failed to read frame")
             ELSE LET hit == frame_matches(cmd, f.contents)
                  IN  IF hit = "panic" THEN FrameError("panic")
                      ELSE IF hit = "yes" THEN FrameFound(rec[i].ts)
                      ELSE FrameLoop(cmd, rec, files, i + 1)

\* A monotonicity check that lets every pair of timestamps pass.
FrameSoonerUnchecked(timestamp_to, timestamp_from) == FALSE

\* timestamp_to < timestamp_from
FrameSooner(timestamp_to, timestamp_from) == timestamp_to < timestamp_from

\* measure: the subtraction of Durations panics when it would go below zero.
measure(cmd, from, rec, files) ==
    LET timestamp_from == find_event_time(from, rec)
    IN  IF timestamp_from = <<>> THEN Failed("Didn't find --from-event")
        ELSE LET timestamp_to == FrameLoop(cmd, rec, files, 1)
             IN  IF ~timestamp_to.ok THEN Failed(timestamp_to.why)
                 ELSE IF FrameSooner(timestamp_to.ts, timestamp_from[1])
                   THEN Failed("frame appeared sooner")
                 ELSE IF timestamp_to.ts < timestamp_from[1] THEN Failed("panic")
                 ELSE Measured(timestamp_to.ts - timestamp_from[1])

\* The events of the measured journals and the command lines naming them.
FromEv == Ev("InputRealized", <<7>>)
ToEv == Ev("Output", <<1>>)
AfterEv == Ev("Marker", <<5>>)
BeforeEv == Ev("Marker", <<6>>)
OtherEv == Ev("Output", <<2>>)
FromArg == Arg(<<"i", ":">>, <<7>>)
ToArg == Arg(<<"o", ":">>, <<1>>)
AfterArg == Arg(<<"m", ":">>, <<5>>)
BeforeArg == Arg(<<"m", ":">>, <<6>>)

\* A journal of the given events, the i-th at i microseconds.
Stamp(evs) == [i \in 1..Len(evs) |-> Event(i, evs[i].kind, evs[i].data, evs[i].dur)]

JournalsOf(alphabet, n) == { Stamp(s) : s \in UNION { [1..k -> alphabet] : k \in 0..n } }

MeasureCommand(before, after, from, to_event, to_frame, text) ==
    [before_event |-> before, after_event |-> after, from_event |-> from,
     to_event |-> to_event, to_frame |-> to_frame, to_frame_with_text |-> text]

NoFiles(n) == [ts \in 1..n |-> NoFile]

FrameFiles(n) ==
    [1..n -> {NoFile, Unreadable, FrameFile(<<1, 2>>), FrameFile(<<3>>)}]

\* measure up to an event, with every choice of --after-event and
\* --before-event; or up to a frame, given by a reference frame or by a text.
InitM ==
    /\ mpc = "start"
    /\ \/ /\ recording \in JournalsOf({FromEv, ToEv, AfterEv, BeforeEv}, MaxEventJournal)
          /\ frame_files = NoFiles(MaxEventJournal)
          /\ \E before \in {<<>>, <<BeforeArg>>}, after \in {<<>>, <<AfterArg>>} :
                self = MeasureCommand(before, after, FromArg, <<ToArg>>, <<>>, <<>>)
       \/ /\ recording \in JournalsOf({FromEv, OtherEv, BeforeEv}, MaxFrameJournal)
          /\ frame_files \in FrameFiles(MaxFrameJournal)
          /\ \E before \in {<<>>, <<BeforeArg>>} :
                \/ self = MeasureCommand(before, <<>>, FromArg, <<>>, <<<<1, 2>>>>, <<>>)
                \/ self = MeasureCommand(before, <<>>, FromArg, <<>>, <<>>, <<<<2>>>>)
    /\ after_event = <<>>
    /\ before_event = <<>>
    /\ from_event = FromEv
    /\ filtered = <<>>
    /\ outcome = Failed("")
    /\ printed = <<>>
    /\ IdleT
    /\ IdleR
    /\ IdleC
    /\ IdleP
    /\ IdleU

\* MeasureCmd::run up to the parsed events: load_recording, parse_event_cmdline.
MeasureParse ==
    /\ mpc = "start"
    /\ LET after == ParseOption(AfterEventArg(self))
           before == ParseOption(self.before_event)
           from == parse_event_cmdline(self.from_event)
       IN  IF <<ParseError>> \in {after, before} \/ from = ParseError
             THEN /\ mpc' = "failed"
                  /\ outcome' = Failed("Invalid event")
                  /\ UNCHANGED <<after_event, before_event, from_event>>
             ELSE /\ mpc' = "filter"
                  /\ after_event' = after
                  /\ before_event' = before
                  /\ from_event' = from
                  /\ UNCHANGED outcome
    /\ UNCHANGED <<self, recording, frame_files, filtered, printed>>
    /\ UNCHANGED <<tvars, rvars, cvars, pvars, uvars>>

\* recording = filter_only_after_and_before_events(recording, after_event, before_event)
MeasureFilter ==
    /\ mpc = "filter"
    /\ filtered' = filter_only_after_and_before_events(recording, after_event, before_event)
    /\ mpc' = "target"
    /\ UNCHANGED <<self, recording, frame_files, after_event, before_event,
                   from_event, outcome, printed>>
    /\ UNCHANGED <<tvars, rvars, cvars, pvars, uvars>>

\* The to_event arm.
MeasureToEvent ==
    /\ mpc = "target"
    /\ self.to_event # <<>>
    /\ LET to_event == parse_event_cmdline(self.to_event[1])
           r == IF to_event = ParseError THEN Failed("Invalid --to-event")
                ELSE MeasureToEventResult(filtered, from_event, to_event)
       IN  /\ outcome' = r
           /\ mpc' = IF r.ok THEN "print" ELSE "failed"
    /\ UNCHANGED <<self, recording, frame_files, after_event, before_event,
                   from_event, filtered, printed>>
    /\ UNCHANGED <<tvars, rvars, cvars, pvars, uvars>>

\* The to_frame / to_frame_with_text arm.
MeasureToFrame ==
    /\ mpc = "target"
    /\ self.to_event = <<>>
    /\ LET r == measure(self, from_event, filtered, frame_files)
       IN  /\ outcome' = r
           /\ mpc' = IF r.ok THEN "print" ELSE "failed"
    /\ UNCHANGED <<self, recording, frame_files, after_event, before_event,
                   from_event, filtered, printed>>
    /\ UNCHANGED <<tvars, rvars, cvars, pvars, uvars>>

\* println!("{delta}")
MeasurePrint ==
    /\ mpc = "print"
    /\ printed' = Append(printed, outcome.delta)
    /\ mpc' = "done"
    /\ UNCHANGED <<self, recording, frame_files, after_event, before_event,
                   from_event, filtered, outcome>>
    /\ UNCHANGED <<tvars, rvars, cvars, pvars, uvars>>

NextM == MeasureParse \/ MeasureFilter \/ MeasureToEvent \/ MeasureToFrame \/ MeasurePrint

SpecM == InitM /\ [][NextM]_vars

\* filter_only_after_and_before_events on its own, called with every pair of
\* boundary events.
InitF ==
    /\ mpc = "filter"
    /\ self = MeasureCommand(<<>>, <<>>, FromArg, <<>>, <<>>, <<>>)
    /\ recording \in JournalsOf({FromEv, ToEv, AfterEv, BeforeEv}, MaxEventJournal)
    /\ frame_files = NoFiles(MaxEventJournal)
    /\ after_event \in {<<>>, <<AfterEv>>, <<BeforeEv>>}
    /\ before_event \in {<<>>, <<AfterEv>>, <<BeforeEv>>}
    /\ from_event = FromEv
    /\ filtered = <<>>
    /\ outcome = Failed("")
    /\ printed = <<>>
    /\ IdleT
    /\ IdleR
    /\ IdleC
    /\ IdleP
    /\ IdleU

NextF == MeasureFilter

SpecF == InitF /\ [][NextF]_vars

\* ----------------------------------------------------------- measure: claims

\* The first index from `start` on of an event equal to ev, Len + 1 without one.
FirstIndex(evs, ev, start) ==
    LET hits == { i \in start..Len(evs) : EventOf(evs[i]) = ev }
    IN  IF hits = {} THEN Len(evs) + 1
        ELSE CHOOSE i \in hits : \A j \in hits : i <= j

\* The events strictly behind the first `after` and strictly in front of the
\* first `before` behind it, without the events equal to `after`.
Window(evs, after, before) ==
    LET lo == IF after = <<>> THEN 0 ELSE FirstIndex(evs, after[1], 1)
        hi == IF before = <<>> THEN Len(evs) + 1 ELSE FirstIndex(evs, before[1], lo + 1)
        Inside(e) == after = <<>> \/ EventOf(e) # after[1]
    IN  SelectSeq(SubSeq(evs, lo + 1, hi - 1), Inside)

MeasureEnded == mpc \in {"done", "failed"}
ToEventMode == mpc # "idle" /\ self.to_event # <<>>
ToFrameMode == mpc # "idle" /\ self.to_event = <<>>

\* C13: the journal measure searches is the window of the command line:
\* behind the first --after-event, in front of the first --before-event.
C13_WindowOfCommandLine ==
    mpc \in {"target", "print", "done", "failed"} =>
        filtered = Window(recording, ParseOption(self.after_event),
                                     ParseOption(self.before_event))

\* C14: filter_only_after_and_before_events returns the events behind the
\* first occurrence of after and in front of the first occurrence of before
\* in range, in their order and without the boundary events; with neither
\* boundary it returns the events unchanged.
C14_FilterIsWindow ==
    mpc = "target" => filtered = Window(recording, after_event, before_event)

\* C15: a measurement up to an event returns t_to - t_from, t_from being the
\* timestamp of the first from_event and t_to the one of the first to_event
\* behind it.
C15_FirstFromFirstTo ==
    (ToEventMode /\ mpc \in {"print", "done"}) =>
        LET fi == FirstIndex(filtered, from_event, 1)
            ti == FirstIndex(filtered, parse_event_cmdline(self.to_event[1]), fi + 1)
        IN  /\ fi <= Len(filtered)
            /\ ti <= Len(filtered)
            /\ outcome.delta = filtered[ti].ts - filtered[fi].ts

\* The entries of the searched journal whose frame file exists, can be read
\* and satisfies the predicate of the command line.
MatchingFrames ==
    { i \in 1..Len(filtered) :
        /\ frame_files[filtered[i].ts].state = "ok"
        /\ frame_matches(self, frame_files[filtered[i].ts].contents) = "yes" }

\* The entries whose frame file exists and cannot be read.
UnreadableFrames ==
    { i \in 1..Len(filtered) : frame_files[filtered[i].ts].state = "unreadable" }

Least(S) == CHOOSE i \in S : \A j \in S : i <= j

\* The search meets a matching frame, and no unreadable one in front of it.
FrameIsFound ==
    /\ MatchingFrames # {}
    /\ \A i \in UnreadableFrames : i > Least(MatchingFrames)

FromIsFound == FirstIndex(filtered, from_event, 1) <= Len(filtered)

TimestampFrom == filtered[FirstIndex(filtered, from_event, 1)].ts
TimestampOfFrame == filtered[Least(MatchingFrames)].ts

\* C16: a measurement up to a frame returns t_frame - t_from, t_from being the
\* timestamp of the first from_event of the searched journal and t_frame the
\* one of its first entry whose frame file exists and satisfies the predicate;
\* entries without a frame file are passed over; and such a measurement
\* succeeds unless the frame is older than the event.
C16_FirstMatchingFrame ==
    /\ (ToFrameMode /\ mpc \in {"print", "done"}) =>
            /\ FromIsFound
            /\ FrameIsFound
            /\ outcome.delta = TimestampOfFrame - TimestampFrom
    /\ (ToFrameMode /\ mpc = "done") => printed = <<TimestampOfFrame - TimestampFrom>>
    /\ (ToFrameMode /\ mpc = "failed" /\ FromIsFound /\ FrameIsFound) =>
            TimestampOfFrame < TimestampFrom

\* A frame file is missing in front of the frame that is found, which is not
\* the frame of the from_event.
C16_Witness ==
    /\ ToFrameMode
    /\ mpc = "done"
    /\ \E i \in 1..Len(filtered) :
            i < Least(MatchingFrames) /\ frame_files[filtered[i].ts].state = "absent"
    /\ outcome.delta > 0

\* C17: a measurement up to a frame that returns a duration has
\* t_frame >= t_from; when the first matching frame is older than the
\* from_event the measurement fails with the monotonicity error and prints
\* nothing, whatever frames match later.
C17_FrameNotSooner ==
    /\ (ToFrameMode /\ mpc \in {"print", "done"}) =>
            /\ TimestampOfFrame >= TimestampFrom
            /\ outcome.delta >= 0
    /\ (ToFrameMode /\ MeasureEnded /\ FromIsFound /\ FrameIsFound
            /\ TimestampOfFrame < TimestampFrom) =>
            /\ mpc = "failed"
            /\ outcome.why = "frame appeared sooner"
            /\ printed = <<>>

\* The first matching frame is older than the event and a later one matches too.
C17_Witness ==
    /\ ToFrameMode
    /\ mpc = "failed"
    /\ outcome.why = "frame appeared sooner"
    /\ \E i \in MatchingFrames : filtered[i].ts >= TimestampFrom

\* The target of the measurement is in the searched journal.
TargetIsFound ==
    IF self.to_event # <<>>
      THEN FirstIndex(filtered, parse_event_cmdline(self.to_event[1]), 1) <= Len(filtered)
      ELSE MatchingFrames # {}

\* C18 as stated: a measurement fails whenever a frame file of the searched
\* journal exists and cannot be read.
C18_AnyUnreadableFrameFails ==
    (ToFrameMode /\ MeasureEnded /\ UnreadableFrames # {}) => mpc = "failed"

\* C18: a measurement fails and prints nothing when the searched journal holds
\* no from_event, when it holds no target, or when the search for the frame
\* meets a file it cannot read before it meets a matching frame; on an empty
\* journal a measurement up to an event fails with not-found.
C18_MeasureFails ==
    /\ (MeasureEnded /\ ~FromIsFound) => mpc = "failed"
    /\ (MeasureEnded /\ ~TargetIsFound) => mpc = "failed"
    /\ (ToFrameMode /\ MeasureEnded /\ FromIsFound /\ UnreadableFrames # {} /\ ~FrameIsFound) =>
            (mpc = "failed" /\ outcome.why = "Failed to read frame")
    /\ (ToEventMode /\ MeasureEnded /\ recording = <<>>) =>
            (mpc = "failed" /\ outcome.why = "Didn't find --to_event")
    /\ mpc = "failed" => printed = <<>>
    /\ mpc = "print" => outcome.ok

\* The search stops at an unreadable frame although a later frame matches.
C18_Witness ==
    /\ ToFrameMode
    /\ mpc = "failed"
    /\ outcome.why = "Failed to read frame"
    /\ MatchingFrames # {}

\* --------------------------------------------------------------------- play
\* In this section a Duration is its number of microseconds and a byte is a
\* small number.  The clock is taken to run forward (begin.elapsed() is Ok)
\* and stdout to take every write.

\* Events in the journal that is played.
MaxPlayJournal == 3
\* default_value_t of max_accuracy_delta_us.
DefaultMaxAccuracyDeltaUs == 1000

\* Timestamps of the played journal.
PlayTimes == {0, 500, 1000}
\* What the write of an iteration takes.
WriteTimes == {0, 1500, 2000}
\* The time a thread::sleep lasts beyond the duration asked for.
Overshoots == {0, 500}
\* The time between the end of an iteration (begin.elapsed()) and the begin
\* of the next.
LoopTimes == {0, 1}

\* A sleep that returns after half of the duration asked for.
SleptShort(delta, over) == delta \div 2

\* thread::sleep(delta) lasts at least delta.
Slept(delta, over) == delta + over

\* A filter that lets every event of the journal through.
filter_all_events(input) == input

\* filter_output_events
filter_output_events(input) == SelectSeq(input, IsOutput)

\* A drift check that fails a replay whose lag has reached the limit.
TooSlowAtLimit(delta, limit) == delta >= limit

\* delta > max_delta
TooSlow(delta, limit) == delta > limit

PlayedEvents ==
    { Event(ts, "Output", <<1>>, 0) : ts \in PlayTimes }
    \cup { Event(ts, "Output", <<2, 3>>, 0) : ts \in PlayTimes }
    \cup { Event(ts, "InputRealized", <<1>>, 0) : ts \in PlayTimes }

\* Journals whose timestamps do not decrease.
PlayedJournals ==
    { s \in UNION { [1..n -> PlayedEvents] : n \in 0..MaxPlayJournal } :
        \A i \in 1..(Len(s) - 1) : s[i].ts <= s[i + 1].ts }

InitP ==
    /\ plpc = "start"
    /\ play_recording \in PlayedJournals
    /\ max_delta \in {0, DefaultMaxAccuracyDeltaUs}
    /\ play_events = <<>>
    /\ last_timestamp = 0
    /\ pe = 1
    /\ stdout = <<>>
    /\ elapsed_log = <<>>
    /\ sleep_log = <<>>
    /\ play_clock = 0
    /\ written_at = <<>>
    /\ IdleT
    /\ IdleR
    /\ IdleC
    /\ IdleM
    /\ IdleU

\* PlayCmd::run up to the loop: load_recording, filter_output_events.
PlayLoad ==
    /\ plpc = "start"
    /\ play_events' = filter_output_events(play_recording)
    /\ last_timestamp' = 0
    /\ plpc' = "loop"
    /\ UNCHANGED <<play_recording, max_delta, pe, stdout, elapsed_log, sleep_log,
                   play_clock, written_at>>
    /\ UNCHANGED <<tvars, rvars, cvars, mvars, uvars>>

\* The lag of the cursor behind the next event is over the limit.
Drifted ==
    /\ play_events[pe].ts < last_timestamp
    /\ TooSlow(last_timestamp - play_events[pe].ts, max_delta)

\* One iteration that writes its event: sleep for timestamp - last_timestamp
\* when the event is not behind the cursor, write the data, advance the
\* cursor by the time elapsed since the iteration began; the next iteration
\* begins a little later.
PlayWrite ==
    /\ plpc = "loop"
    /\ pe <= Len(play_events)
    /\ ~Drifted
    /\ \E w \in WriteTimes, over \in Overshoots, gap \in LoopTimes :
          LET timestamp == play_events[pe].ts
              sleeps == timestamp >= last_timestamp
              delta == IF sleeps THEN timestamp - last_timestamp ELSE 0
              slept == IF sleeps THEN Slept(delta, over) ELSE 0
          IN  /\ ~sleeps => over = 0
              /\ stdout' = stdout \o play_events[pe].data
              /\ written_at' = Append(written_at, play_clock + slept)
              /\ last_timestamp' = last_timestamp + slept + w
              /\ elapsed_log' = Append(elapsed_log, slept + w)
              /\ sleep_log' = IF sleeps THEN Append(sleep_log, delta) ELSE sleep_log
              /\ play_clock' = play_clock + slept + w + gap
    /\ pe' = pe + 1
    /\ UNCHANGED <<plpc, play_recording, max_delta, play_events>>
    /\ UNCHANGED <<tvars, rvars, cvars, mvars, uvars>>

\* bail!("Playback too slow: ..")
PlayTooSlow ==
    /\ plpc = "loop"
    /\ pe <= Len(play_events)
    /\ Drifted
    /\ plpc' = "too slow"
    /\ UNCHANGED <<play_recording, max_delta, play_events, last_timestamp, pe,
                   stdout, elapsed_log, sleep_log, play_clock, written_at>>
    /\ UNCHANGED <<tvars, rvars, cvars, mvars, uvars>>

\* Ok(()) behind the last event.
PlayReturn ==
    /\ plpc = "loop"
    /\ pe > Len(play_events)
    /\ plpc' = "done"
    /\ UNCHANGED <<play_recording, max_delta, play_events, last_timestamp, pe,
                   stdout, elapsed_log, sleep_log, play_clock, written_at>>
    /\ UNCHANGED <<tvars, rvars, cvars, mvars, uvars>>

NextP == PlayLoad \/ PlayWrite \/ PlayTooSlow \/ PlayReturn

SpecP == InitP /\ [][NextP]_vars

\* ------------------------------------------------------------- play: claims

\* C19: an event behind the cursor by more than max_accuracy_delta ends the
\* replay with "playback too slow" and nothing more is written, that event
\* included; any other event is written in the same iteration.  Two events
\* 500 microseconds apart, the first iteration taking 2 ms on top of its
\* sleep, played with a limit of 1000 microseconds, end in the timing error
\* with the first event written alone.
C19_DriftAborts ==
    /\ [][(plpc = "loop" /\ pe <= Len(play_events)) =>
            IF /\ play_events[pe].ts < last_timestamp
               /\ last_timestamp - play_events[pe].ts > max_delta
              THEN plpc' = "too slow" /\ stdout' = stdout
              ELSE /\ plpc' = "loop"
                   /\ pe' = pe + 1
                   /\ stdout' = stdout \o play_events[pe].data]_vars
    /\ [][plpc # "too slow"]_vars
    /\ []((/\ plpc \in {"done", "too slow"}
           /\ Len(play_events) = 2
           /\ play_events[2].ts - play_events[1].ts = 500
           /\ max_delta = 1000
           /\ elapsed_log # <<>>
           /\ elapsed_log[1] = play_events[1].ts + 2000) =>
              (plpc = "too slow" /\ stdout = play_events[1].data))

\* The replay of the example has ended.
C19_Witness ==
    /\ plpc = "too slow"
    /\ Len(play_events) = 2
    /\ play_events[2].ts - play_events[1].ts = 500
    /\ max_delta = 1000
    /\ elapsed_log = <<play_events[1].ts + 2000>>

\* The number of bytes in the payloads of the first k events.
RECURSIVE PrefixLen(_, _)
PrefixLen(evs, k) == IF k = 0 THEN 0 ELSE PrefixLen(evs, k - 1) + Len(evs[k].data)

\* C20: a replay that succeeds has written the payloads of the journal's
\* Output events, in journal order and nothing else, and has asked for one
\* sleep or drift check per Output event, no sleep reaching beyond the gap to
\* the previous Output event; a replay that ends on drift has written those
\* payloads up to the end of one of them; a journal without Output events
\* leaves stdout empty.
C20_StdoutIsOutputPayloads ==
    LET outputs == SelectSeq(play_recording, IsOutput)
    IN  /\ plpc = "done" =>
              /\ stdout = Bytes(outputs)
              /\ Len(elapsed_log) = Len(outputs)
              /\ \A k \in 1..Len(sleep_log) : sleep_log[k] <= outputs[Len(outputs)].ts
        /\ plpc = "too slow" =>
              \E k \in 0..(Len(outputs) - 1) :
                  /\ Len(stdout) = PrefixLen(outputs, k)
                  /\ stdout = SubSeq(Bytes(outputs), 1, Len(stdout))
        /\ (plpc \in {"done", "too slow"} /\ outputs = <<>>) =>
              (plpc = "done" /\ stdout = <<>>)

\* A journal with other events between two Output events has been replayed.
C20_Witness ==
    /\ plpc = "done"
    /\ Len(play_recording) = 3
    /\ ~IsOutput(play_recording[2])
    /\ Len(stdout) = 3

\* The sum of the first k durations of a log.
RECURSIVE SumOf(_, _)
SumOf(log, k) == IF k = 0 THEN 0 ELSE SumOf(log, k - 1) + log[k]

\* C34: the cursor is the sum of the times measured in the iterations made
\* so far, sleep and write together, and no event has been written before
\* the time since the first iteration began had reached its timestamp.
C34_NeverEarly ==
    plpc \in {"loop", "too slow", "done"} =>
        /\ Len(elapsed_log) = pe - 1
        /\ Len(written_at) = pe - 1
        /\ last_timestamp = SumOf(elapsed_log, pe - 1)
        /\ \A k \in 1..(pe - 1) :
              /\ written_at[k] >= play_events[k].ts
              /\ written_at[k] >= SumOf(elapsed_log, k - 1)

\* Three events of growing timestamps were played: one was written at its
\* timestamp to the microsecond after a sleep, one later than its timestamp
\* without a sleep.
C34_Witness ==
    /\ plpc = "done"
    /\ Len(play_events) = 3
    /\ play_events[1].ts < play_events[2].ts
    /\ play_events[2].ts < play_events[3].ts
    /\ \E k \in 1..3 : written_at[k] = play_events[k].ts /\ play_events[k].ts > 0
    /\ \E k \in 1..3 : written_at[k] > play_events[k].ts
    /\ Len(sleep_log) < 3

\* ------------------------------------------------------------ byte strings
\* delete_subslices (utils.rs) and delete_mosh_predict (cmd/measure_cmd.rs),
\* each called once on arguments drawn from a bounded set. A byte is a
\* one-character string, ESC stands for the byte 0x1B.

\* Bytes of the data handed to delete_subslices.
MaxData == 4

\* What a call returns, or that it panicked.
Returned(data) == [panic |-> FALSE, data |-> data]
Panicked == [panic |-> TRUE, data |-> <<>>]

\* A single pass of the deletion: `if let` in place of `while let`.
DrainFirst(data, seq) ==
    LET index == FindSubslice(data, seq)
    IN  IF index = Panic THEN Panicked
        ELSE IF index = None THEN Returned(data)
        ELSE Returned(SubSeq(data, 1, index)
                        \o SubSeq(data, index + Len(seq) + 1, Len(data)))

\* while let Some(index) = find_subslice(&data, seq) { data.drain(index..index + seq.len()); }
RECURSIVE DrainAll(_, _)
DrainAll(data, seq) ==
    LET index == FindSubslice(data, seq)
    IN  IF index = Panic THEN Panicked
        ELSE IF index = None THEN Returned(data)
        ELSE DrainAll(SubSeq(data, 1, index)
                        \o SubSeq(data, index + Len(seq) + 1, Len(data)), seq)

\* The for loop of delete_subslices from sequence k on.
RECURSIVE DeleteLoop(_, _, _)
DeleteLoop(data, delete_sequences, k) ==
    IF k > Len(delete_sequences) THEN Returned(data)
    ELSE LET drained_k == DrainAll(data, delete_sequences[k])
         IN  IF drained_k.panic THEN Panicked
             ELSE DeleteLoop(drained_k.data, delete_sequences, k + 1)

delete_subslices(data, delete_sequences) ==
    IF delete_sequences = <<>> THEN Returned(data)
    ELSE DeleteLoop(data, delete_sequences, 1)

ESC == "ESC"
UnderlineOn == <<ESC, "[", "4", "m">>
AttributesOff == <<ESC, "[", "0", "m">>

\* delete_mosh_predict: every ESC[4m is drained, then every ESC[0m.
delete_mosh_predict(data) ==
    DrainAll(DrainAll(data, UnderlineOn).data, AttributesOff).data

\* Byte strings of at most n bytes.
ByteStrings(alphabet, n) == UNION { [1..k -> alphabet] : k \in 0..n }

\* The lists of sequences to delete: at most two, the empty sequence among
\* them.
DeleteLists ==
    UNION { [1..k -> { <<>>, <<"a">>, <<"a", "b">>, <<"b", "a">> }] : k \in 0..2 }

InitU ==
    /\ fn_pc = "call"
    /\ fn_in \in { [data |-> d, delete_sequences |-> l] :
                     d \in ByteStrings({"a", "b"}, MaxData), l \in DeleteLists }
    /\ fn_out = <<>>
    /\ IdleT
    /\ IdleR
    /\ IdleC
    /\ IdleM
    /\ IdleP

\* delete_subslices(data, delete_sequences)
DeleteSubslices ==
    /\ fn_pc = "call"
    /\ LET r == delete_subslices(fn_in.data, fn_in.delete_sequences)
       IN  /\ fn_pc' = IF r.panic THEN "panicked" ELSE "returned"
           /\ fn_out' = r.data
    /\ UNCHANGED fn_in
    /\ UNCHANGED <<tvars, rvars, cvars, mvars, pvars>>

NextU == DeleteSubslices

SpecU == InitU /\ [][NextU]_vars

\* The frames handed to delete_mosh_predict: made of the two escapes, their
\* halves, and text.
FrameParts ==
    { UnderlineOn, AttributesOff, <<ESC, "[">>, <<"4", "m">>, <<"0", "m">>, <<"x">> }

RECURSIVE Concat(_)
Concat(parts) == IF parts = <<>> THEN <<>> ELSE parts[1] \o Concat(Tail(parts))

InitD ==
    /\ fn_pc = "call"
    /\ fn_in \in { [data |-> Concat(parts)] : parts \in UNION { [1..k -> FrameParts] : k \in 0..3 } }
    /\ fn_out = <<>>
    /\ IdleT
    /\ IdleR
    /\ IdleC
    /\ IdleM
    /\ IdleP

\* delete_mosh_predict(data)
DeleteMoshPredict ==
    /\ fn_pc = "call"
    /\ fn_out' = delete_mosh_predict(fn_in.data)
    /\ fn_pc' = "returned"
    /\ UNCHANGED fn_in
    /\ UNCHANGED <<tvars, rvars, cvars, mvars, pvars>>

NextD == DeleteMoshPredict

SpecD == InitD /\ [][NextD]_vars

Occurs(seq, data) ==
    \E i \in 0..(Len(data) - Len(seq)) : SubSeq(data, i + 1, i + Len(seq)) = seq

\* C25: stripping a frame a second time changes nothing; the stripped frame
\* holds no ESC[4m and no ESC[0m.
C25_StripIdempotent ==
    fn_pc = "returned" =>
        /\ delete_mosh_predict(fn_out) = fn_out
        /\ ~Occurs(UnderlineOn, fn_out)
        /\ ~Occurs(AttributesOff, fn_out)

\* The data without the leftmost occurrence of seq, again and again until
\* seq does not occur: the least position where seq stands is cut out. (An
\* empty seq is looked for in empty data only, where nothing is to delete.)
RECURSIVE WithoutLeftmost(_, _)
WithoutLeftmost(data, seq) ==
    IF seq = <<>> \/ ~Occurs(seq, data) THEN data
    ELSE LET at == CHOOSE i \in 1..Len(data) :
                     /\ SubSeq(data, i, i + Len(seq) - 1) = seq
                     /\ \A j \in 1..(i - 1) : SubSeq(data, j, j + Len(seq) - 1) # seq
         IN  WithoutLeftmost([k \in 1..(Len(data) - Len(seq)) |->
                                 IF k < at THEN data[k] ELSE data[k + Len(seq)]], seq)

\* The sequences of the list taken out one after the other, in its order.
RECURSIVE InListedOrder(_, _)
InListedOrder(data, delete_sequences) ==
    IF delete_sequences = <<>> THEN data
    ELSE InListedOrder(WithoutLeftmost(data, delete_sequences[1]), Tail(delete_sequences))

\* C26: delete_subslices takes the sequences in the listed order and deletes
\* the leftmost occurrence of each until none remains, occurrences that a
\* deletion has formed included, before it goes on to the next; with an empty
\* list, with empty data and when no sequence occurs it returns the data as
\* it was.
C26_DeleteInOrder ==
    fn_pc = "returned" =>
        LET data == fn_in.data
            seqs == fn_in.delete_sequences
        IN  /\ fn_out = InListedOrder(data, seqs)
            /\ (seqs # <<>> /\ seqs[Len(seqs)] # <<>>) => ~Occurs(seqs[Len(seqs)], fn_out)
            /\ (seqs = <<>> \/ data = <<>> \/ \A k \in 1..Len(seqs) : ~Occurs(seqs[k], data))
                 => fn_out = data

\* "ab" was deleted from "aabb": the one there was, and the one that formed.
C26_Witness ==
    /\ fn_pc = "returned"
    /\ fn_in.data = <<"a", "a", "b", "b">>
    /\ fn_in.delete_sequences = << <<"a", "b">> >>
    /\ fn_out = <<>>

\* --------------------------------------------------- event on a command line
\* parse_event_cmdline (file_format.rs) called once on an argument of bytes.

\* Bytes of the argument.
MaxArg == 3

InitA ==
    /\ fn_pc = "call"
    /\ fn_in \in { [arg |-> a] :
                     a \in ByteStrings({"o", "i", "w", "m", "s", ":", "x"}, MaxArg) }
    /\ fn_out = <<>>
    /\ IdleT
    /\ IdleR
    /\ IdleC
    /\ IdleM
    /\ IdleP

\* parse_event_cmdline(arg)
ParseEventCmdline ==
    /\ fn_pc = "call"
    /\ fn_out' = parse_event_cmdline(fn_in.arg)
    /\ fn_pc' = "returned"
    /\ UNCHANGED fn_in
    /\ UNCHANGED <<tvars, rvars, cvars, mvars, pvars>>

NextA == ParseEventCmdline

SpecA == InitA /\ [][NextA]_vars

\* C30: parse_event_cmdline takes the event from the first two bytes of the
\* argument, "o:" Output, "i:" InputRealized, "w:" BarrierUnlocked, "m:"
\* Marker, and all bytes behind them as the payload, as they are and possibly
\* none; any other two bytes, "s:" among them, and an argument of fewer than
\* two bytes are an error.
C30_EventOfPrefix ==
    fn_pc = "returned" =>
        LET arg == fn_in.arg
        IN  IF Len(arg) >= 2 /\ arg[2] = ":" /\ arg[1] \in {"o", "i", "w", "m"}
              THEN /\ fn_out.kind = KindOfTag(arg[1])
                   /\ Len(fn_out.data) = Len(arg) - 2
                   /\ \A k \in 1..Len(fn_out.data) : fn_out.data[k] = arg[k + 2]
              ELSE fn_out = ParseError

\* "w:" alone was parsed as a BarrierUnlocked without payload.
C30_Witness ==
    /\ fn_pc = "returned"
    /\ fn_in.arg = <<"w", ":">>
    /\ fn_out = Ev("BarrierUnlocked", <<>>)

====
